---- MODULE Spec2Model ----
(***************************************************************************)
(* A model of earth.js (wallpaper-engine/libs/earth/1.0.0/earth.js): the   *)
(* dependency agents and their wiring, the field builder's batches, the    *)
(* particle animator (trail ring buffer, RK2 evolution), the field's hole  *)
(* semantics and the day/night mask cache.                                 *)
(*                                                                         *)
(* Each subsystem has its own specification over the same variables; the   *)
(* variables of the other subsystems stay at their initial values.         *)
(***************************************************************************)
EXTENDS Integers, Sequences, FiniteSets, TLC

\* ---------------------------------------------------------------- bounds
MaxEvents == 4       \* configuration changes and renderer events delivered
NumColumns == 2      \* sampled screen columns between bounds.x and bounds.xMax
MaxResets == 1       \* resetTrails calls (globe updates, rotation start/stop)
MaxTicks == 20       \* animation ticks followed

VARIABLES
    agents,          \* [Agents -> agent record] (micro.js agents, see newAgentState)
    projName,        \* globe builds: the projection name each was submitted with
    fieldX,          \* field builds: interpolateField's column cursor x
    progress,        \* report.progress: -1 = invisible, else columns done
    status,          \* report: [bad, text] of the #status line
    fieldInterpolating,  \* earth.js 1354
    envEvents,       \* configuration / renderer events so far (bound bookkeeping)
    cancelAsked,     \* history: field builds in flight when cancelInterpolation ran
    \* --- the particle animator (animate), followed for one particle i
    grid,            \* grids.primaryGrid: which wind grid interpolate reads
    velocityScale,   \* bounds.height * primaryGrid.particles.velocityScale
    lon, lat,        \* lon[i], lat[i] in 1/Deg degrees
    age, miss,       \* age[i] (Uint16), miss[i] (Uint8)
    trail,           \* [head, size, lon, lat]: trailHead[i], trailSize[i], trailLon, trailLat
    last,            \* history: what evolve did to the particle in the last tick
    fifo,            \* history: the samples pushed since the last trailClear, newest
                     \* TRAIL_LEN of them, oldest first
    pushes,          \* history: pushes since the last trailClear (up to TRAIL_LEN + 1)
    ticks, resets,   \* animation ticks and resetTrails calls so far (bound bookkeeping)
    \* --- one field build (interpolateField) and its field (createField)
    scene,           \* [Sampled -> PixelKinds]: mask, projection.invert and grid per pixel
    columns,         \* columns[x][y]: the sparse arrays of the build
    fx,              \* interpolateField's column cursor x
    maskData,        \* the mask's alpha per view pixel (imageData.data[i + 3])
    fieldPhase,      \* "building", "complete", "partial" (resolved on cancel), "released"
    fCancel,         \* cancel.requested of the build
    \* --- the day/night overlay's mask cache
    dnGlobe,         \* globeAgent.value(): the Globe instance (NoGlobe before the first)
    ctrlGlobe,       \* the input controller's globe
    projRev,         \* per Globe: mutations its projection has had
    maskCache,       \* [cachedGlobe, cachedMask]
    maskSerial,      \* masks createMask has made for the overlay
    redrawPending,   \* doDraw_throttled is armed
    moving,          \* a drag or zoom operation awaits signalEnd
    autoRotating,    \* autoRotateSpeed > 0
    lastUse,         \* history: the mask the latest updateDayNight drew with
    quiet,           \* history: nothing touched the cache or a projection since getMask
    \* --- the day/night classification (calculateDayNightStatus)
    now,             \* the wall clock, UTC: [month, day, hour]
    cfgDate,         \* the validity date of the displayed grid / configuration
    dnStatus,        \* history: the latest calculateDayNightStatus call and its result
    clockTicks,      \* hours the clock advanced (bound bookkeeping)
    \* --- the input controller (buildInputController)
    op,              \* the open move operation, or NoOp
    zoomScale,       \* the zoom behaviour's scale, zoom.scale()
    inputGlobe,      \* whether a globe was injected into the controller
    endPending,      \* the debounced signalEnd is waiting for MOVE_END_WAIT
    out,             \* history: the events the latest handler emitted
    opLog,           \* history: what the open operation emitted and saw
    lastInput,       \* history: the latest event delivered to the controller
    thrown,          \* history: the latest handler ended with a TypeError
    inputs,          \* events delivered (bound bookkeeping)
    \* --- auto-rotation and the animation frame
    spinGlobe,       \* globeAgent.value() (NoGlobe before the first)
    animGlobe,       \* the globe the running animate() was submitted with
    rotateLon,       \* per Globe: projection.rotate()[0], degrees
    autoRotateSpeed, \* degrees per minute (0 = off)
    autoRotateAnimationFrame,  \* "null", "pending" (a queued callback) or "stale"
    autoRotatePaused,
    lastAutoRotateTime,        \* "null" or "set"
    resumeLoops,     \* queued animate callbacks of resumeAutoRotation
    resumeTimers,    \* pending setTimeout(resumeAutoRotation, 500)
    restartTimers,   \* pending setTimeout(startAutoRotation(currentSpeed), 100), oldest first
    gesture,         \* history: a moveStart was emitted and no moveEnd since
    hostOff,         \* history: the host's latest speed setting was 0
    rotated,         \* history: the latest step was an auto-rotation step that rotated
    frameSaw,        \* history: the globe and longitude evolve and draw of the latest frame got
    spinSteps,       \* steps so far (bound bookkeeping)
    \* --- the fields the animator holds (field.release)
    published,       \* fieldAgent.value(): a field, or NullField
    fieldsBuilt,     \* fields interpolateField has resolved with
    releasedFields,  \* the fields whose release() ran (columns = [])
    animations,      \* the animate tasks whose frame loop is alive: [field, cancelled]
    lookup,          \* history: the latest lookup on fieldAgent.value()
    relSteps,        \* steps so far (bound bookkeeping)
    \* --- the status line (report)
    line,            \* #status: [bad, text]
    lastCall,        \* history: the latest call on report, [fn, arg]
    calls,           \* calls so far (bound bookkeeping)
    \* --- the Wallpaper Engine property listener (wallpaper-config.js)
    pendingProperties,  \* the properties kept for later, or NoProperties
    earthJsReady,
    configuration,   \* the attributes applyProperties saves: [projection, overlayType]
    applyTimer,      \* the 200 ms timer of checkEarthJsReady: "none", "pending", "fired"
    receivedBefore,  \* history: per property, the latest value received before readiness
    laterKeys,       \* history: the properties received after readiness
    propSteps,        \* steps so far (bound bookkeeping)
    \* --- the weather service's fetch (weather-service)
    hour,            \* the UTC hour at which fetchCurrentGFSData is called
    runsToTry,
    dateIndex,
    runIndex,
    stepIndex,       \* the step of the attempt in flight; 0 when none is
    fetching,        \* "idle", "trying", "done"
    tried,           \* history: the (date, run) pairs tried, in order
    outcomes,        \* history: "ok" or "failed", for each pair that settled
    callbacks,        \* history: the callback's invocations, "ok" or "error"
    overlayFiles,     \* the (date, run) each published overlay file was written from
    \* --- drawing a particle's trail (draw)
    drawTrail,       \* the trail's samples, oldest first, as the projection shows them
    clipAngle,       \* currentProjection.clipAngle(), 0 when the projection has none
    path,            \* the canvas path calls made for the trail
    trailDrawn,       \* whether drawParticleTrail has run
    \* --- interpolateField's batches (batchInterpolate)
    bx,              \* x, the next column to interpolate
    bxMax,           \* bounds.xMax (bounds.x is 0)
    cancelRequested, \* cancel.requested
    promise,         \* "pending", "resolved", "rejected"
    sleepTimer,      \* the delay of the timer set to resume, 0 when none is set
    shownProgress,   \* report.progress's latest amount, as <<numerator, denominator>>
    lastBatch,       \* history: what the latest batch found and did
    batches,          \* history: the invocations of batchInterpolate so far
    \* --- who cancels the field interpolation (init's listeners)
    overlayAgents,   \* the agents, of which the field agent is followed
    userInteracting,
    interpolating,   \* the listeners' flag fieldInterpolating
    overlaySpinning, \* autoRotateSpeed > 0
    emitted,         \* history: the renderer events of the latest handler
    overlaySteps,     \* steps so far (bound bookkeeping)
    \* --- the grid agent's rebuilds (configuration change listener, buildGrids, navigate)
    cfgAttributes,   \* configuration.attributes: [date, overlayType]
    gridAgent,       \* the grid agent
    grids,           \* gridAgent.value(): [overlay, same], NoGrids before the first
    downloadsInProgress,
    lastGridOp,      \* history: the latest handler and what it was given
    gridSteps,        \* steps so far (bound bookkeeping)
    \* --- the overlay's colour (interpolateColumn), one column
    columnPixels,    \* per sampled y: [kind, wind, overlay], what the mask, the projection and the grids give
    hasDistinctOverlay,  \* primaryGrid !== overlayGrid
    columnY,         \* the loop's position in the column
    coloured,         \* per y done: [set, vector, color], what went to the column and the mask
    \* --- window._windAnimatorActive and the animator's frame loops
    frameLoops,      \* the animate calls whose frame timer is set: [id, cancelled]
    windAnimatorActive,  \* window._windAnimatorActive (undefined reads as false)
    animateCalls,    \* animate calls so far
    lastAnimatorOp,  \* history: what the latest handler did
    activeSteps,      \* steps so far (bound bookkeeping)
    \* --- the weather service's scheduler (startWeatherService)
    inProgress,      \* runOnce's flag
    retryTimeout,    \* the handle of the retry timer, or NoTimer
    fetchRuns,       \* calls of fetchCurrentGFSData whose callback is still to come
    retryTimers,     \* the retry timers set and neither fired nor cleared
    timersSet,       \* retry timers set so far (the next handle)
    lastTrigger,     \* history: the latest call of runOnce
    serviceSteps     \* steps so far (bound bookkeeping)

agentVars == <<agents, projName, fieldX, progress, status, fieldInterpolating,
               envEvents, cancelAsked>>

particleVars == <<grid, velocityScale, lon, lat, age, miss, trail, last, fifo,
                  pushes, ticks, resets>>

fieldVars == <<scene, columns, fx, maskData, fieldPhase, fCancel>>

maskVars == <<dnGlobe, ctrlGlobe, projRev, maskCache, maskSerial, redrawPending, moving,
              autoRotating, lastUse, quiet>>

sunVars == <<now, cfgDate, dnStatus, clockTicks>>

inputVars == <<op, zoomScale, inputGlobe, endPending, out, opLog, lastInput, thrown, inputs>>

spinVars == <<spinGlobe, animGlobe, rotateLon, autoRotateSpeed, autoRotateAnimationFrame,
              autoRotatePaused, lastAutoRotateTime, resumeLoops, resumeTimers,
              restartTimers, gesture, hostOff, rotated, frameSaw, spinSteps>>

relVars == <<published, fieldsBuilt, releasedFields, animations, lookup, relSteps>>

repVars == <<line, lastCall, calls>>

propVars == <<pendingProperties, earthJsReady, configuration, applyTimer, receivedBefore,
              laterKeys, propSteps>>

fetchVars == <<hour, runsToTry, dateIndex, runIndex, stepIndex, fetching, tried, outcomes,
              callbacks, overlayFiles>>

drawVars == <<drawTrail, clipAngle, path, trailDrawn>>

batchVars == <<bx, bxMax, cancelRequested, promise, sleepTimer, shownProgress, lastBatch,
              batches>>

overlayVars == <<overlayAgents, userInteracting, interpolating, overlaySpinning, emitted,
              overlaySteps>>

gridVars == <<cfgAttributes, gridAgent, grids, downloadsInProgress, lastGridOp, gridSteps>>

colourVars == <<columnPixels, hasDistinctOverlay, columnY, coloured>>

activeVars == <<frameLoops, windAnimatorActive, animateCalls, lastAnimatorOp, activeSteps>>

serviceVars == <<inProgress, retryTimeout, fetchRuns, retryTimers, timersSet, lastTrigger, serviceSteps>>

notAgentVars == <<particleVars, fieldVars, maskVars, sunVars, inputVars, spinVars, relVars, repVars, propVars, fetchVars, drawVars, batchVars, overlayVars, gridVars, colourVars, activeVars, serviceVars>>
notParticleVars == <<agentVars, fieldVars, maskVars, sunVars, inputVars, spinVars, relVars, repVars, propVars, fetchVars, drawVars, batchVars, overlayVars, gridVars, colourVars, activeVars, serviceVars>>
notFieldVars == <<agentVars, particleVars, maskVars, sunVars, inputVars, spinVars, relVars, repVars, propVars, fetchVars, drawVars, batchVars, overlayVars, gridVars, colourVars, activeVars, serviceVars>>
notMaskVars == <<agentVars, particleVars, fieldVars, sunVars, inputVars, spinVars, relVars, repVars, propVars, fetchVars, drawVars, batchVars, overlayVars, gridVars, colourVars, activeVars, serviceVars>>
notSunVars == <<agentVars, particleVars, fieldVars, maskVars, inputVars, spinVars, relVars, repVars, propVars, fetchVars, drawVars, batchVars, overlayVars, gridVars, colourVars, activeVars, serviceVars>>
notInputVars == <<agentVars, particleVars, fieldVars, maskVars, sunVars, spinVars, relVars, repVars, propVars, fetchVars, drawVars, batchVars, overlayVars, gridVars, colourVars, activeVars, serviceVars>>
notSpinVars == <<agentVars, particleVars, fieldVars, maskVars, sunVars, inputVars, relVars, repVars, propVars, fetchVars, drawVars, batchVars, overlayVars, gridVars, colourVars, activeVars, serviceVars>>
notRelVars == <<agentVars, particleVars, fieldVars, maskVars, sunVars, inputVars, spinVars, repVars, propVars, fetchVars, drawVars, batchVars, overlayVars, gridVars, colourVars, activeVars, serviceVars>>
notRepVars == <<agentVars, particleVars, fieldVars, maskVars, sunVars, inputVars, spinVars, relVars, propVars, fetchVars, drawVars, batchVars, overlayVars, gridVars, colourVars, activeVars, serviceVars>>
notPropVars == <<agentVars, particleVars, fieldVars, maskVars, sunVars, inputVars, spinVars, relVars, repVars, fetchVars, drawVars, batchVars, overlayVars, gridVars, colourVars, activeVars, serviceVars>>

notFetchVars == <<agentVars, particleVars, fieldVars, maskVars, sunVars, inputVars, spinVars, relVars, repVars, propVars, drawVars, batchVars, overlayVars, gridVars, colourVars, activeVars, serviceVars>>

notDrawVars == <<agentVars, particleVars, fieldVars, maskVars, sunVars, inputVars, spinVars, relVars, repVars, propVars, fetchVars, batchVars, overlayVars, gridVars, colourVars, activeVars, serviceVars>>

notBatchVars == <<agentVars, particleVars, fieldVars, maskVars, sunVars, inputVars, spinVars, relVars, repVars, propVars, fetchVars, drawVars, overlayVars, gridVars, colourVars, activeVars, serviceVars>>

notOverlayVars == <<agentVars, particleVars, fieldVars, maskVars, sunVars, inputVars, spinVars, relVars, repVars, propVars, fetchVars, drawVars, batchVars, gridVars, colourVars, activeVars, serviceVars>>

notGridVars == <<agentVars, particleVars, fieldVars, maskVars, sunVars, inputVars, spinVars, relVars, repVars, propVars, fetchVars, drawVars, batchVars, overlayVars, colourVars, activeVars, serviceVars>>

notColourVars == <<agentVars, particleVars, fieldVars, maskVars, sunVars, inputVars, spinVars, relVars, repVars, propVars, fetchVars, drawVars, batchVars, overlayVars, gridVars, activeVars, serviceVars>>

notActiveVars == <<agentVars, particleVars, fieldVars, maskVars, sunVars, inputVars, spinVars, relVars, repVars, propVars, fetchVars, drawVars, batchVars, overlayVars, gridVars, colourVars, serviceVars>>

notServiceVars == <<agentVars, particleVars, fieldVars, maskVars, sunVars, inputVars, spinVars, relVars, repVars, propVars, fetchVars, drawVars, batchVars, overlayVars, gridVars, colourVars, activeVars>>

vars == <<agents, projName, fieldX, progress, status, fieldInterpolating,
         envEvents, cancelAsked,
         grid, velocityScale, lon, lat, age, miss, trail, last, fifo, pushes, ticks, resets,
         scene, columns, fx, maskData, fieldPhase, fCancel,
         dnGlobe, ctrlGlobe, projRev, maskCache, maskSerial, redrawPending, moving,
         autoRotating, lastUse, quiet,
         now, cfgDate, dnStatus, clockTicks,
         op, zoomScale, inputGlobe, endPending, out, opLog, lastInput, thrown, inputs,
         spinGlobe, animGlobe, rotateLon, autoRotateSpeed, autoRotateAnimationFrame,
         autoRotatePaused, lastAutoRotateTime, resumeLoops, resumeTimers, restartTimers,
         gesture, hostOff, rotated, frameSaw, spinSteps,
         published, fieldsBuilt, releasedFields, animations, lookup, relSteps,
         line, lastCall, calls,
         pendingProperties, earthJsReady, configuration, applyTimer, receivedBefore,
         laterKeys, propSteps,
         hour, runsToTry, dateIndex, runIndex, stepIndex, fetching, tried, outcomes,
              callbacks, overlayFiles,
         drawTrail, clipAngle, path, trailDrawn,
         bx, bxMax, cancelRequested, promise, sleepTimer, shownProgress, lastBatch,
              batches,
         overlayAgents, userInteracting, interpolating, overlaySpinning, emitted,
              overlaySteps,
         cfgAttributes, gridAgent, grids, downloadsInProgress, lastGridOp, gridSteps,
         columnPixels, hasDistinctOverlay, columnY, coloured,
         frameLoops, windAnimatorActive, animateCalls, lastAnimatorOp, activeSteps,
         inProgress, retryTimeout, fetchRuns, retryTimers, timersSet, lastTrigger, serviceSteps>>

\* ------------------------------------------------------------ report
\* report.status without the test of the "bad" class.
report_status_overwrite(s, msg) == [s EXCEPT !.text = msg]

\* report.status(msg): errors are sticky until reset.
report_status(s, msg) == IF s.bad THEN s ELSE [s EXCEPT !.text = msg]

\* report.error(err)
report_error(s, msg) == [bad |-> TRUE, text |-> msg]

\* report.reset()
report_reset(s) == [bad |-> FALSE, text |-> ""]

\* ------------------------------------------------------------ agents
Agents == {"globe", "grid", "renderer", "field"}

\* A fresh agent: no build yet, value() = null (0), token 0 is the initial
\* cancel function.
\* stale is history: the builds whose token was requested while they ran.
newAgentState ==
    [n |-> 0, requested |-> {}, phase |-> <<>>, value |-> 0, events |-> <<>>,
     stale |-> {}]

Running(ag) == {id \in 1..ag.n : ag.phase[id] = "running"}

\* agent.cancel(): sets the current token's requested flag.
cancel(ag) ==
    [ag EXCEPT !.requested = @ \cup {ag.n},
               !.stale = @ \cup (Running(ag) \cap {ag.n})]

\* agent.submit(task, ...): cancels the in-flight build, starts a new one
\* with a fresh token and emits "submit".
submit(ag) ==
    LET c == cancel(ag) IN
    [c EXCEPT !.n = @ + 1,
              !.phase = Append(@, "running"),
              !.events = Append(@, <<"submit", ag.n + 1>>)]

\* accept without the token test: every resolved build is published.
accept_ignoringCancel(ag, id) ==
    [ag EXCEPT !.phase[id] = "resolved",
               !.value = id,
               !.events = Append(@, <<"update", id>>)]

\* The build's promise resolved: publish unless its token was requested.
accept(ag, id) ==
    IF id \in ag.requested
    THEN [ag EXCEPT !.phase[id] = "resolved"]
    ELSE [ag EXCEPT !.phase[id] = "resolved",
                    !.value = id,
                    !.events = Append(@, <<"update", id>>)]

\* The build's promise rejected: emit "reject" unless its token was requested.
reject(ag, id) ==
    IF id \in ag.requested
    THEN [ag EXCEPT !.phase[id] = "rejected"]
    ELSE [ag EXCEPT !.phase[id] = "rejected",
                    !.events = Append(@, <<"reject", id>>)]

\* ------------------------------------------------- builders (earth.js)
\* The projection registry (globes.get): names with a builder.
Registry == {"orthographic"}
ProjectionNames == Registry \cup {"bogus"}

\* buildGlobe without the registry test: any name yields a globe.
buildGlobe_anyName(name) == [outcome |-> "resolve", reason |-> ""]

\* buildGlobe with the registry test inverted.
buildGlobe_inverted(name) ==
    IF name \in Registry
    THEN [outcome |-> "reject", reason |-> "Unknown projection"]
    ELSE [outcome |-> "resolve", reason |-> ""]

\* buildGlobe(projectionName): rejects an unknown projection name.
buildGlobe(name) ==
    IF name \notin Registry
    THEN [outcome |-> "reject", reason |-> "Unknown projection"]
    ELSE [outcome |-> "resolve", reason |-> ""]

\* newAgent(): every agent reports "reject" to report.error.
onReject(ag, id, s, msg) == IF id \in ag.requested THEN s ELSE report_error(s, msg)

\* startRendering(): rendererAgent.submit(buildRenderer, mesh, globe).
startRendering(ags) == [ags EXCEPT !["renderer"] = submit(@)]

\* startInterpolation(): fieldAgent.submit(interpolateField, globe, grids).
startInterpolation(ags) == [ags EXCEPT !["field"] = submit(@)]

\* cancelInterpolation that forgets to call fieldAgent.cancel().
cancelInterpolation_noop(ags) == ags

\* cancelInterpolation(): fieldAgent.cancel().
cancelInterpolation(ags) == [ags EXCEPT !["field"] = cancel(@)]

\* interpolateField's first line: no globe or no grids, no interpolation
\* (the cursor -1 stands for the null result).
interpolateFieldStart(ags) ==
    IF ags["globe"].value = 0 \/ ags["grid"].value = 0 THEN -1 ELSE 0

\* report.progress(amount) with amount = x / NumColumns: the bar is shown for
\* 0 <= amount < 1 and hidden otherwise.
report_progress(x) == IF 0 <= x /\ x < NumColumns THEN x ELSE -1

\* The token test that lets every build through.
Delivered_always(ag, id) == TRUE

\* runTask's test of the token: !cancel.requested
Delivered(ag, id) == id \notin ag.requested

\* ------------------------------------------------------------ actions
\* The agents as init's "Agents" section constructs them.
constructedAgents ==
    /\ agents = [a \in Agents |-> newAgentState]
    /\ projName = <<>>
    /\ fieldX = <<>>
    /\ progress = -1
    /\ status = [bad |-> FALSE, text |-> ""]
    /\ fieldInterpolating = FALSE
    /\ envEvents = 0
    /\ cancelAsked = {}

\* configuration "change:projection": report.reset, globeAgent.submit(buildGlobe).
ChangeProjection(name) ==
    /\ envEvents < MaxEvents
    /\ envEvents' = envEvents + 1
    /\ agents' = [agents EXCEPT !["globe"] = submit(@)]
    /\ projName' = Append(projName, name)
    /\ status' = report_reset(status)
    /\ UNCHANGED <<fieldX, progress, fieldInterpolating, cancelAsked>>
    /\ UNCHANGED notAgentVars

\* configuration "change" of a layer attribute: report.reset,
\* gridAgent.submit(buildGrids); buildGrids reports "Downloading...".
ChangeLayer ==
    /\ envEvents < MaxEvents
    /\ envEvents' = envEvents + 1
    /\ agents' = [agents EXCEPT !["grid"] = submit(@)]
    /\ status' = report_status(report_reset(status), "Downloading...")
    /\ UNCHANGED <<projName, fieldX, progress, fieldInterpolating, cancelAsked>>
    /\ UNCHANGED notAgentVars

\* The globe build's promise settles. A delivered update runs startRendering
\* (buildRenderer reports "Rendering Globe...").
GlobeSettle(id) ==
    /\ id \in Running(agents["globe"])
    /\ LET ag == agents["globe"]
           r == buildGlobe(projName[id]) IN
       IF r.outcome = "reject"
       THEN /\ agents' = [agents EXCEPT !["globe"] = reject(ag, id)]
            /\ status' = onReject(ag, id, status, r.reason)
       ELSE /\ agents' = IF Delivered(ag, id)
                         THEN startRendering([agents EXCEPT !["globe"] = accept(ag, id)])
                         ELSE [agents EXCEPT !["globe"] = accept(ag, id)]
            /\ status' = IF Delivered(ag, id)
                         THEN report_status(status, "Rendering Globe...")
                         ELSE status
    /\ UNCHANGED <<projName, fieldX, progress, fieldInterpolating, envEvents, cancelAsked>>
    /\ UNCHANGED notAgentVars

\* The renderer build's promise settles (buildRenderer returns "ready").
RendererSettle(id) ==
    /\ id \in Running(agents["renderer"])
    /\ agents' = [agents EXCEPT !["renderer"] = accept(@, id)]
    /\ UNCHANGED <<projName, fieldX, progress, status, fieldInterpolating, envEvents,
                   cancelAsked>>
    /\ UNCHANGED notAgentVars

\* The grid build's promise settles: the products loaded, or a load failed.
\* A delivered update runs startInterpolation.
GridSettle(id, ok) ==
    /\ id \in Running(agents["grid"])
    /\ LET ag == agents["grid"] IN
       IF ~ok
       THEN /\ agents' = [agents EXCEPT !["grid"] = reject(ag, id)]
            /\ status' = onReject(ag, id, status, "No Data")
            /\ UNCHANGED <<fieldX, fieldInterpolating>>
       ELSE IF Delivered(ag, id)
       THEN LET a1 == [agents EXCEPT !["grid"] = accept(ag, id)] IN
            /\ agents' = startInterpolation(a1)
            /\ fieldX' = Append(fieldX, interpolateFieldStart(a1))
            /\ fieldInterpolating' = TRUE
            /\ status' = IF interpolateFieldStart(a1) = 0
                         THEN report_status(status, "") ELSE status
       ELSE /\ agents' = [agents EXCEPT !["grid"] = accept(ag, id)]
            /\ UNCHANGED <<fieldX, fieldInterpolating, status>>
    /\ UNCHANGED <<projName, progress, envEvents, cancelAsked>>
    /\ UNCHANGED notAgentVars

\* rendererAgent "render" (a move ended, or auto-rotation asked for it):
\* startInterpolation.
Render ==
    /\ envEvents < MaxEvents
    /\ envEvents' = envEvents + 1
    /\ agents' = startInterpolation(agents)
    /\ fieldX' = Append(fieldX, interpolateFieldStart(agents))
    /\ fieldInterpolating' = TRUE
    /\ status' = IF interpolateFieldStart(agents) = 0
                 THEN report_status(status, "") ELSE status
    /\ UNCHANGED <<projName, progress, cancelAsked>>
    /\ UNCHANGED notAgentVars

\* rendererAgent "start" (a move began): cancelInterpolation.
Start ==
    /\ envEvents < MaxEvents
    /\ envEvents' = envEvents + 1
    /\ agents' = cancelInterpolation(agents)
    /\ cancelAsked' = cancelAsked \cup Running(agents["field"])
    /\ UNCHANGED <<projName, fieldX, progress, status, fieldInterpolating>>
    /\ UNCHANGED notAgentVars

\* rendererAgent "redraw": cancelInterpolation only while the user interacts.
Redraw(interacting) ==
    /\ envEvents < MaxEvents
    /\ envEvents' = envEvents + 1
    /\ IF interacting
       THEN /\ agents' = cancelInterpolation(agents)
            /\ cancelAsked' = cancelAsked \cup Running(agents["field"])
       ELSE UNCHANGED <<agents, cancelAsked>>
    /\ UNCHANGED <<projName, fieldX, progress, status, fieldInterpolating>>
    /\ UNCHANGED notAgentVars

\* The field builder's promise resolved with the columns filled so far.
FieldResolve(id) ==
    /\ agents' = [agents EXCEPT !["field"] = accept(@, id)]
    /\ fieldInterpolating' = IF Delivered(agents["field"], id)
                             THEN FALSE ELSE fieldInterpolating

\* interpolateField / batchInterpolate, one invocation: the first one or a
\* resumption by the MIN_SLEEP_TIME timer. k columns are interpolated; yield
\* says that MAX_TASK_TIME had elapsed after the k-th.
FieldBatch(id, k, yield) ==
    /\ id \in Running(agents["field"])
    /\ LET x == fieldX[id] IN
       IF x = -1 \/ id \in agents["field"].requested \/ x >= NumColumns
       THEN \* null inputs, cancel.requested on resume, or nothing left
            /\ k = 1 /\ yield = FALSE
            /\ FieldResolve(id)
            /\ progress' = IF x = -1 THEN progress ELSE report_progress(NumColumns)
            /\ UNCHANGED fieldX
       ELSE /\ k \in 1..(NumColumns - x)
            /\ yield \/ k = NumColumns - x
            /\ fieldX' = [fieldX EXCEPT ![id] = x + k]
            /\ IF yield
               THEN /\ progress' = report_progress(x + k)
                    /\ UNCHANGED <<agents, fieldInterpolating>>
               ELSE /\ FieldResolve(id)
                    /\ progress' = report_progress(NumColumns)
    /\ UNCHANGED <<projName, status, envEvents, cancelAsked>>
    /\ UNCHANGED notAgentVars

NextAgents ==
    \/ \E name \in ProjectionNames : ChangeProjection(name)
    \/ ChangeLayer
    \/ \E id \in 1..MaxEvents : GlobeSettle(id)
    \/ \E id \in 1..MaxEvents : RendererSettle(id)
    \/ \E id \in 1..MaxEvents, ok \in BOOLEAN : GridSettle(id, ok)
    \/ Render
    \/ Start
    \/ \E ui \in BOOLEAN : Redraw(ui)
    \/ \E id \in 1..MaxEvents, k \in 1..NumColumns, yield \in BOOLEAN :
          FieldBatch(id, k, yield)


\* ------------------------------------------------ particle animator
\* lon and lat are Float32Array degrees; the model keeps them as whole
\* multiples of 1/Deg degree, which a Float32 stores exactly.
Deg == 16
TRAIL_LEN == 16
MAX_PARTICLE_AGE == 100
MAX_AGE == MAX_PARTICLE_AGE * 6
MAX_STEP_DEG_LON == 4 * Deg
MAX_STEP_DEG_LAT == (5 * Deg) \div 2
MISS_LIMIT == 8

Null == -1                         \* a null magnitude (w[2] === null)
NoWind == <<>>                     \* interpolate returned null

Abs(x) == IF x < 0 THEN -x ELSE x

\* a / b rounded toward zero (b > 0)
Quot(a, b) == IF a >= 0 THEN a \div b ELSE -((-a) \div b)

\* micro.js clamp(x, low, high)
clamp(x, low, high) == IF x < low THEN low ELSE IF x > high THEN high ELSE x

\* clampLat without the clamp.
clampLat_unclamped(phi) == phi

\* clampLat(phi): keep away from the poles.
clampLat(phi) == clamp(phi, -85 * Deg, 85 * Deg)

\* 100 * Math.cos(phi * PI / 180), by 10-degree bands of |phi|.
CosPct(phi) ==
    LET d == Abs(phi) \div Deg IN
    IF d < 10 THEN 100 ELSE IF d < 20 THEN 98 ELSE IF d < 30 THEN 94
    ELSE IF d < 40 THEN 87 ELSE IF d < 50 THEN 77 ELSE IF d < 60 THEN 64
    ELSE IF d < 70 THEN 50 ELSE IF d < 80 THEN 34 ELSE IF d < 90 THEN 17
    ELSE 0

\* Math.max(0.01, Math.abs(cos)), in hundredths
cosFloor(c) == IF Abs(c) < 1 THEN 1 ELSE Abs(c)

\* The wind grids: primaryGrid.interpolate(lon, lat) is [u, v, magnitude],
\* null, or a vector whose magnitude is null.
NormLonDeg(lambda) == (lambda \div Deg) % 360

interpolate(g, lambda, phi) ==
    IF g = "uniform" THEN <<5, 0, 5>>
    ELSE IF g = "gale"
    THEN IF phi >= 0 THEN <<200, 90, 219>> ELSE <<-200, -90, 219>>
    ELSE \* "holes": no data around the prime meridian, a null magnitude
         \* further east, wind elsewhere
         IF NormLonDeg(lambda) < 8 \/ NormLonDeg(lambda) >= 352 THEN NoWind
         ELSE IF NormLonDeg(lambda) \in 96..99 THEN <<0, 0, Null>>
         ELSE <<30, -4, 30>>

\* !w || w[2] === null
Undefined(w) == w = NoWind \/ w[3] = Null

\* The step limits without the clamp.
stepLon_unclamped(w, vs, cosPct) == Quot(w[1] * vs * 100, cosFloor(cosPct))

\* k-lambda: clamp((w[0] * velocityScale) / cos, -MAX_STEP_DEG_LON, MAX_STEP_DEG_LON)
stepLon(w, vs, cosPct) ==
    clamp(Quot(w[1] * vs * 100, cosFloor(cosPct)), -MAX_STEP_DEG_LON, MAX_STEP_DEG_LON)

\* k-phi taken from the u component.
stepLat_fromU(w, vs) == clamp(w[1] * vs, -MAX_STEP_DEG_LAT, MAX_STEP_DEG_LAT)

\* k-phi: clamp(w[1] * velocityScale, -MAX_STEP_DEG_LAT, MAX_STEP_DEG_LAT)
stepLat(w, vs) == clamp(w[2] * vs, -MAX_STEP_DEG_LAT, MAX_STEP_DEG_LAT)

\* trailClear(i)
trailClear(tr) == [tr EXCEPT !.head = 0, !.size = 0]

\* trailPush that does not wrap the head.
trailPush_noWrap(tr, lambda, phi) ==
    [tr EXCEPT !.lon[tr.head % TRAIL_LEN] = lambda,
               !.lat[tr.head % TRAIL_LEN] = phi,
               !.head = IF tr.head + 1 < TRAIL_LEN THEN tr.head + 1 ELSE tr.head,
               !.size = IF tr.size < TRAIL_LEN THEN tr.size + 1 ELSE tr.size]

\* trailPush(i, lambda, phi)
trailPush(tr, lambda, phi) ==
    [tr EXCEPT !.lon[tr.head] = lambda,
               !.lat[tr.head] = phi,
               !.head = (tr.head + 1) % TRAIL_LEN,
               !.size = IF tr.size < TRAIL_LEN THEN tr.size + 1 ELSE tr.size]

\* drawParticleTrail's walk: slots (head - size + j) mod TRAIL_LEN, j = 0..size-1
trailIndex(tr, j) ==
    LET idx == tr.head - tr.size + j IN
    (IF idx < 0 THEN idx + TRAIL_LEN ELSE idx) % TRAIL_LEN

trailSamples(tr) ==
    [j \in 1..tr.size |-> <<tr.lon[trailIndex(tr, j - 1)], tr.lat[trailIndex(tr, j - 1)]>>]

\* _.random(-180, 180), _.random(-85, 85): the picks the model draws from
RandomPoints ==
    {<<-170 * Deg, -85 * Deg>>, <<4 * Deg, 10 * Deg>>, <<90 * Deg, 85 * Deg>>}

\* randomizeParticle's outcomes: a pick with wind defined, or, when 80 picks
\* in a row can miss, the fallback (0, 0).
SpawnChoices(g) ==
    {q \in RandomPoints : ~Undefined(interpolate(g, q[1], q[2]))}
        \cup (IF \E q \in RandomPoints : Undefined(interpolate(g, q[1], q[2]))
              THEN {<<0, 0>>} ELSE {})

\* the particle as a record, for the operators below
Particle == [lon |-> lon, lat |-> lat, age |-> age, miss |-> miss, trail |-> trail]

\* randomizeParticle that leaves the age alone.
randomizeParticle_keepAge(pt, q) ==
    [pt EXCEPT !.lon = q[1], !.lat = q[2],
               !.trail = trailPush(trailClear(pt.trail), q[1], q[2])]

\* randomizeParticle that does not clear the trail.
randomizeParticle_keepTrail(pt, q) ==
    [pt EXCEPT !.lon = q[1], !.lat = q[2], !.age = 0,
               !.trail = trailPush(pt.trail, q[1], q[2])]

\* randomizeParticle(i) landing on q: age and trail are reset, miss is not.
randomizeParticle(pt, q) ==
    [pt EXCEPT !.lon = q[1], !.lat = q[2], !.age = 0,
               !.trail = trailPush(trailClear(pt.trail), q[1], q[2])]

\* resetTrails(), for the one particle
resetTrails(pt) == [pt EXCEPT !.trail = trailPush(trailClear(pt.trail), pt.lon, pt.lat)]

\* The loop body of evolve for the particle; q1 is where an age respawn lands
\* and q2 where a miss respawn lands. The result pairs the particle with what
\* happened: whether it was respawned for its age, where the integration
\* started from, the midpoint, the step k1 that located it, and the outcome.
\* (0.5 * k1 is rounded toward zero to the model's 1/Deg grid.)
evolveParticle(pt0, g, vs, q1, q2) ==
    LET aged == pt0.age > MAX_AGE
        pt == IF aged THEN randomizeParticle(pt0, q1) ELSE pt0
        lambda == pt.lon
        phi == pt.lat
        w1 == interpolate(g, lambda, phi)
        missed1 == [pt EXCEPT !.miss = (pt.miss + 1) % 256]
        k1l == stepLon(w1, vs, CosPct(clampLat(phi)))
        k1p == stepLat(w1, vs)
        midl == lambda + Quot(k1l, 2)
        midp == clampLat(phi + Quot(k1p, 2))
        w2 == interpolate(g, midl, midp)
        \* miss[i] = 0 ran before the midpoint was sampled
        missed2 == [pt EXCEPT !.miss = (0 + 1) % 256]
        k2l == stepLon(w2, vs, CosPct(midp))
        k2p == stepLat(w2, vs)
        newl == lambda + k2l
        newp == clampLat(phi + k2p)
    IN  IF Undefined(w1)
        THEN [pt |-> IF missed1.miss > MISS_LIMIT
                     THEN randomizeParticle(missed1, q2) ELSE missed1,
              aged |-> aged, from |-> <<lambda, phi>>, mid |-> <<lambda, phi>>,
              k1 |-> <<0, 0>>,
              outcome |-> IF missed1.miss > MISS_LIMIT THEN "respawn" ELSE "miss"]
        ELSE IF Undefined(w2)
        THEN [pt |-> IF missed2.miss > MISS_LIMIT
                     THEN randomizeParticle(missed2, q2) ELSE missed2,
              aged |-> aged, from |-> <<lambda, phi>>, mid |-> <<midl, midp>>,
              k1 |-> <<k1l, k1p>>,
              outcome |-> IF missed2.miss > MISS_LIMIT THEN "respawn" ELSE "miss"]
        ELSE [pt |-> [pt EXCEPT !.lon = newl, !.lat = newp, !.miss = 0,
                                !.trail = trailPush(pt.trail, newl, newp),
                                !.age = pt.age + 1],
              aged |-> aged, from |-> <<lambda, phi>>, mid |-> <<midl, midp>>,
              k1 |-> <<k1l, k1p>>,
              outcome |-> "advanced"]

\* history: the bounded FIFO the trail is meant to be
fifoPush(f, sample) == IF Len(f) < TRAIL_LEN THEN Append(f, sample) ELSE Append(Tail(f), sample)
countPush(n) == IF n > TRAIL_LEN THEN n ELSE n + 1

\* The particle with its history, after evolve's loop body ran on st.
evolveState(st, g, vs, q1, q2) ==
    LET r == evolveParticle(st.pt, g, vs, q1, q2)
        f1 == IF r.aged THEN <<q1>> ELSE st.fifo
        n1 == IF r.aged THEN 1 ELSE st.pushes
    IN  [pt |-> r.pt,
         last |-> [outcome |-> r.outcome, aged |-> r.aged, from |-> r.from,
                   mid |-> r.mid, k1 |-> r.k1],
         fifo |-> IF r.outcome = "respawn" THEN <<q2>>
                  ELSE IF r.outcome = "advanced"
                  THEN fifoPush(f1, <<r.pt.lon, r.pt.lat>>)
                  ELSE f1,
         pushes |-> IF r.outcome = "respawn" THEN 1
                    ELSE IF r.outcome = "advanced" THEN countPush(n1)
                    ELSE n1]

EmptyTrail ==
    [head |-> 0, size |-> 0,
     lon |-> [k \in 0..(TRAIL_LEN - 1) |-> 0], lat |-> [k \in 0..(TRAIL_LEN - 1) |-> 0]]

\* animate(): the typed arrays are zeroed, then "init particles" randomizes
\* the particle (landing on q).
spawnState(q) ==
    [pt |-> randomizeParticle(
                [lon |-> 0, lat |-> 0, age |-> 0, miss |-> 0, trail |-> EmptyTrail], q),
     last |-> [outcome |-> "spawn", aged |-> FALSE, from |-> q, mid |-> q, k1 |-> <<0, 0>>],
     fifo |-> <<q>>,
     pushes |-> 1]

\* n further frames of the animation from st, none of which respawns: the
\* wind is defined everywhere on the grid and the age stays below MAX_AGE.
\* evolve is composed with itself, halving n (a trail always holds a push).
RECURSIVE frames(_, _, _, _)
frames(n, st, g, vs) ==
    IF n = 0 THEN st
    ELSE IF n = 1 THEN evolveState(st, g, vs, <<0, 0>>, <<0, 0>>)
    ELSE LET half == frames(n - (n \div 2), st, g, vs)
         IN  IF half.pushes > 0 THEN frames(n \div 2, half, g, vs) ELSE half

\* The animation after n frames from the spawn at q.
framesFrom(q, g, vs, n) == frames(n, spawnState(q), g, vs)

\* The grids with their velocityScale, and how long the animation has been
\* running when the model starts to follow it.
Configs == {<<"uniform", 1>>, <<"gale", 1>>, <<"holes", 3>>}
FramesRun(g) == IF g = "holes" THEN {0} ELSE {0, MAX_AGE - 8}

runningParticles ==
    \E c \in Configs : \E q \in SpawnChoices(c[1]) : \E n \in FramesRun(c[1]) :
    \E st \in {framesFrom(q, c[1], c[2], n)} :
        /\ grid = c[1]
        /\ velocityScale = c[2]
        /\ lon = st.pt.lon /\ lat = st.pt.lat /\ age = st.pt.age
        /\ miss = st.pt.miss /\ trail = st.pt.trail
        /\ last = st.last /\ fifo = st.fifo /\ pushes = st.pushes
        /\ ticks = 0
        /\ resets = 0

\* One animation tick: evolve(frameGlobe), for the particle.
Evolve(q1, q2) ==
    /\ ticks < MaxTicks
    /\ ticks' = ticks + 1
    /\ q1 \in (IF age > MAX_AGE THEN SpawnChoices(grid) ELSE {<<0, 0>>})
    /\ \E st \in {evolveState([pt |-> Particle, last |-> last, fifo |-> fifo,
                               pushes |-> pushes], grid, velocityScale, q1, q2)} :
        /\ q2 \in (IF st.last.outcome = "respawn" THEN SpawnChoices(grid) ELSE {<<0, 0>>})
        /\ lon' = st.pt.lon /\ lat' = st.pt.lat /\ age' = st.pt.age
        /\ miss' = st.pt.miss /\ trail' = st.pt.trail
        /\ last' = st.last /\ fifo' = st.fifo /\ pushes' = st.pushes
    /\ UNCHANGED <<grid, velocityScale, resets>>
    /\ UNCHANGED notParticleVars

\* window.resetWindTrails() (a globe update, auto-rotation started or stopped)
ResetTrails ==
    /\ resets < MaxResets
    /\ resets' = resets + 1
    /\ trail' = resetTrails(Particle).trail
    /\ fifo' = <<<<lon, lat>>>>
    /\ pushes' = 1
    /\ last' = [outcome |-> "reset", aged |-> FALSE, from |-> <<lon, lat>>, mid |-> <<lon, lat>>,
                k1 |-> <<0, 0>>]
    /\ UNCHANGED <<grid, velocityScale, lon, lat, age, miss, ticks>>
    /\ UNCHANGED notParticleVars

NextParticles ==
    \/ \E q1, q2 \in RandomPoints \cup {<<0, 0>>} : Evolve(q1, q2)
    \/ ResetTrails

\* ------------------------------------------------- field interpolation
\* interpolateField over the viewport bounds x = 0..XMax, y = 0..YMax, and
\* the field createField makes of its columns.
XMax == 4
YMax == 2

Xs == 0..(XMax + 1)
Ys == 0..(YMax + 1)

\* The pixels interpolateColumn samples: x = bounds.x, bounds.x + 2, ... below
\* bounds.xMax and y = bounds.y, bounds.y + 2, ... up to bounds.yMax.
Sampled == {p \in (0..(XMax - 1)) \X (0..YMax) : p[1] % 2 = 0 /\ p[2] % 2 = 0}

\* What a sampled pixel is: outside the mask polygon; projection.invert
\* returns nothing; the inverted longitude is not finite; the primary grid has
\* no value at the inverted point (interpolate returns null); wind.
PixelKinds == {"masked", "noCoord", "nonFinite", "noData", "wind"}

\* The array singletons; obj is the object's identity (the two hold the same
\* values [NaN, NaN, null]).
NULL_WIND_VECTOR == [obj |-> "NULL_WIND_VECTOR", mag |-> Null]
HOLE_VECTOR == [obj |-> "HOLE_VECTOR", mag |-> Null]
WindVector == [obj |-> "wind", mag |-> 7]
NoEntry == [obj |-> "undefined", mag |-> Null]    \* an index never assigned

TRANSPARENT_BLACK == 0     \* its alpha
OVERLAY_ALPHA == 102       \* Math.floor(0.4 * 255)

NoColumn == [defined |-> FALSE, cells |-> [y \in Ys |-> NoEntry]]

\* Math.round of a coordinate given in half pixels
MathRound(h) == (h + 1) \div 2

\* wind || HOLE_VECTOR with the out-of-field singleton instead of the hole.
holeOr_nullVector(wind) == IF wind = NoWind THEN NULL_WIND_VECTOR ELSE WindVector

\* wind || HOLE_VECTOR
holeOr(wind) == IF wind = NoWind THEN HOLE_VECTOR ELSE WindVector

\* interpolateColumn's wind for a visible pixel: null unless the inverted
\* coordinate exists, is finite and the grid has a value there.
windAt(kind) == IF kind = "wind" THEN <<1, 1, 7>> ELSE NoWind

\* interpolateColumn's color for a visible pixel (its alpha): the gradient's
\* when the scalar is a value.
colorAt(kind) == IF kind = "wind" THEN OVERLAY_ALPHA ELSE TRANSPARENT_BLACK

\* mask.isVisible(x, y)
isVisible(mask, x, y) == mask[<<x, y>>] > 0

\* interpolateColumn(x): the column, stored at columns[x] and columns[x + 1]
interpolateColumn(cols, mask, sc, x) ==
    LET column ==
            [defined |-> TRUE,
             cells |-> [y \in Ys |->
                          LET y0 == y - (y % 2) IN
                          IF y0 <= YMax /\ isVisible(mask, x, y0)
                          THEN holeOr(windAt(sc[<<x, y0>>])) ELSE NoEntry]]
    IN  [c \in Xs |-> IF c = x \/ c = x + 1 THEN column ELSE cols[c]]

\* the four mask.set calls of every visible pixel of column x (a write past
\* the image data is dropped)
maskAfterColumn(mask, sc, x) ==
    [p \in DOMAIN mask |->
        LET x0 == p[1] - (p[1] % 2)
            y0 == p[2] - (p[2] % 2)
        IN  IF x0 = x /\ y0 <= YMax /\ isVisible(mask, x0, y0)
            THEN colorAt(sc[<<x0, y0>>]) ELSE mask[p]]

\* createField's field(x, y), x and y in half pixels
field(cols, hx, hy) ==
    LET cx == MathRound(hx)
        cy == MathRound(hy)
    IN  IF cx \in Xs /\ cols[cx].defined /\ cy \in Ys /\ cols[cx].cells[cy] # NoEntry
        THEN cols[cx].cells[cy] ELSE NULL_WIND_VECTOR

\* field.isDefined(x, y)
isDefined(cols, hx, hy) == field(cols, hx, hy).mag # Null

\* field.isInsideBoundary(x, y)
isInsideBoundary(cols, hx, hy) == field(cols, hx, hy) # NULL_WIND_VECTOR

\* createMask(globe).isVisible over the view (width XMax + 1, height YMax + 1):
\* the 2x2 block of a sampled pixel is inside the polygon or outside it.
createMask(sc) ==
    [p \in (0..XMax) \X (0..YMax) |->
        LET s == <<p[1] - (p[1] % 2), p[2] - (p[2] % 2)>>
        IN  IF s \in Sampled /\ sc[s] = "masked" THEN 0 ELSE 255]

buildingField ==
    \E sc \in [Sampled -> PixelKinds] :
        /\ scene = sc
        /\ columns = [x \in Xs |-> NoColumn]
        /\ fx = 0
        /\ maskData = createMask(sc)
        /\ fieldPhase = "building"
        /\ fCancel = FALSE

\* batchInterpolate's loop, one turn: interpolateColumn(x); x += 2
InterpolateColumn ==
    /\ fieldPhase = "building"
    /\ fx < XMax
    /\ columns' = interpolateColumn(columns, maskData, scene, fx)
    /\ maskData' = maskAfterColumn(maskData, scene, fx)
    /\ fx' = fx + 2
    /\ UNCHANGED <<scene, fieldPhase, fCancel>>
    /\ UNCHANGED notFieldVars

\* fieldAgent.cancel() while the build sleeps between batches
CancelField ==
    /\ fieldPhase = "building"
    /\ ~fCancel
    /\ fCancel' = TRUE
    /\ UNCHANGED <<scene, columns, fx, maskData, fieldPhase>>
    /\ UNCHANGED notFieldVars

\* d.resolve(createField(columns, bounds, mask, projection)): the loop ran to
\* bounds.xMax, or the batch found cancel.requested
ResolveField ==
    /\ fieldPhase = "building"
    /\ fx >= XMax \/ fCancel
    /\ fieldPhase' = IF fx >= XMax THEN "complete" ELSE "partial"
    /\ UNCHANGED <<scene, columns, fx, maskData, fCancel>>
    /\ UNCHANGED notFieldVars

\* field.release(): columns = []
ReleaseField ==
    /\ fieldPhase \in {"complete", "partial"}
    /\ columns' = [x \in Xs |-> NoColumn]
    /\ fieldPhase' = "released"
    /\ UNCHANGED <<scene, fx, maskData, fCancel>>
    /\ UNCHANGED notFieldVars

NextField ==
    \/ InterpolateColumn
    \/ CancelField
    \/ ResolveField
    \/ ReleaseField

\* ------------------------------------------------ day/night mask cache
MaxGlobes == 2        \* globes the globe agent publishes
MaxMutations == 2     \* mutations of one globe's projection
MaxMasks == 4         \* masks createMask makes

Globes == 1..MaxGlobes
NoGlobe == 0
NoMask == [id |-> 0, globe |-> NoGlobe, rev |-> 0]     \* cachedMask = null

\* invalidateMask()
invalidateMask == [cachedGlobe |-> NoGlobe, cachedMask |-> NoMask]

\* getMask(globe), globe not null: the cache afterwards. A mask made now is
\* object id, of the projection after its rev-th mutation.
getMask(cache, globe, id, rev) ==
    IF cache.cachedGlobe # globe \/ cache.cachedMask = NoMask
    THEN [cachedGlobe |-> globe, cachedMask |-> [id |-> id, globe |-> globe, rev |-> rev]]
    ELSE cache

NoUse == [mask |-> 0, globe |-> NoGlobe, builtRev |-> 0, usedRev |-> 0,
          prevMask |-> 0, prevGlobe |-> NoGlobe, quiet |-> FALSE]

\* updateDayNight() (dayNightEnabled, the #daynight canvas ready), run on the
\* cache and the projections a handler leaves: the mask getMask returns is
\* handed to drawDayNightOverlay.
updateDayNight(cache, revs, q) ==
    IF dnGlobe = NoGlobe
    THEN /\ maskCache' = cache
         /\ quiet' = q
         /\ UNCHANGED <<maskSerial, lastUse>>
    ELSE LET made == cache.cachedGlobe # dnGlobe \/ cache.cachedMask = NoMask
             got == getMask(cache, dnGlobe, maskSerial + 1, revs[dnGlobe])
         IN  /\ made => maskSerial < MaxMasks
             /\ maskCache' = got
             /\ maskSerial' = IF made THEN maskSerial + 1 ELSE maskSerial
             /\ lastUse' = [mask |-> got.cachedMask.id, globe |-> dnGlobe,
                            builtRev |-> got.cachedMask.rev, usedRev |-> revs[dnGlobe],
                            prevMask |-> lastUse.mask, prevGlobe |-> lastUse.globe,
                            quiet |-> q]
             /\ quiet' = TRUE

\* a mutation of globe g's projection (rotate, scale, orientation)
mutate(revs, g) == [revs EXCEPT ![g] = @ + 1]

noDayNight ==
    /\ dnGlobe = NoGlobe
    /\ ctrlGlobe = NoGlobe
    /\ projRev = [g \in Globes |-> 0]
    /\ maskCache = invalidateMask
    /\ maskSerial = 0
    /\ redrawPending = FALSE
    /\ moving = FALSE
    /\ autoRotating = FALSE
    /\ lastUse = NoUse
    /\ quiet = FALSE

\* globeAgent "update" with a new Globe: the day/night listener invalidates
\* (its updateDayNight timer is an UpdateDayNight step).
GlobeUpdate ==
    /\ dnGlobe < MaxGlobes
    /\ dnGlobe' = dnGlobe + 1
    /\ maskCache' = invalidateMask
    /\ quiet' = FALSE
    /\ UNCHANGED <<ctrlGlobe, projRev, maskSerial, redrawPending, moving, autoRotating,
                   lastUse>>
    /\ UNCHANGED notMaskVars

\* buildRenderer(mesh, globe) and, on the next turn, inputController.globe(globe):
\* reorient() triggers moveStart, sets the configured orientation and
\* triggers moveEnd, on which the day/night agent runs updateDayNight.
BuildRenderer ==
    /\ dnGlobe # NoGlobe
    /\ ctrlGlobe # dnGlobe
    /\ projRev[dnGlobe] < MaxMutations
    /\ ctrlGlobe' = dnGlobe
    /\ projRev' = mutate(projRev, dnGlobe)
    /\ updateDayNight(maskCache, projRev', FALSE)
    /\ UNCHANGED <<dnGlobe, redrawPending, moving, autoRotating>>
    /\ UNCHANGED notMaskVars

\* configuration "change:orientation" from a source other than moveEnd and
\* autoRotate (a new hash, show-location): reorient()
Reorient ==
    /\ ctrlGlobe # NoGlobe
    /\ projRev[ctrlGlobe] < MaxMutations
    /\ projRev' = mutate(projRev, ctrlGlobe)
    /\ updateDayNight(maskCache, projRev', FALSE)
    /\ UNCHANGED <<dnGlobe, ctrlGlobe, redrawPending, moving, autoRotating>>
    /\ UNCHANGED notMaskVars

\* a "zoom" event of a drag or zoom: manipulator.move, then "move", on which
\* the renderer arms doDraw_throttled
Drag ==
    /\ ctrlGlobe # NoGlobe
    /\ projRev[ctrlGlobe] < MaxMutations
    /\ projRev' = mutate(projRev, ctrlGlobe)
    /\ redrawPending' = TRUE
    /\ moving' = TRUE
    /\ quiet' = FALSE
    /\ UNCHANGED <<dnGlobe, ctrlGlobe, maskCache, maskSerial, autoRotating, lastUse>>
    /\ UNCHANGED notMaskVars

\* doDraw after REDRAW_WAIT: rendererAgent "redraw", on which the day/night
\* listener invalidates
Redrawn ==
    /\ redrawPending
    /\ redrawPending' = FALSE
    /\ maskCache' = invalidateMask
    /\ quiet' = FALSE
    /\ UNCHANGED <<dnGlobe, ctrlGlobe, projRev, maskSerial, moving, autoRotating, lastUse>>
    /\ UNCHANGED notMaskVars

\* signalEnd after MOVE_END_WAIT (the redraw timer, armed earlier for a shorter
\* wait, has fired): configuration.save with source moveEnd, for which
\* reorient returns at once; "moveEnd" runs updateDayNight.
MoveEnd ==
    /\ moving
    /\ ~redrawPending
    /\ moving' = FALSE
    /\ updateDayNight(maskCache, projRev, quiet)
    /\ UNCHANGED <<dnGlobe, ctrlGlobe, projRev, redrawPending, autoRotating>>
    /\ UNCHANGED notMaskVars

\* stopAutoRotation()'s configuration.save with source autoRotate: when the
\* orientation changed, reorient triggers rendererAgent "redraw", on which
\* the day/night listener invalidates.
savedOrientation(changed) ==
    /\ maskCache' = IF changed /\ dnGlobe # NoGlobe THEN invalidateMask ELSE maskCache
    /\ quiet' = IF changed /\ dnGlobe # NoGlobe THEN FALSE ELSE quiet

\* startAutoRotation(speed), speed > 0: stopAutoRotation() first
StartAutoRotation(changed) ==
    /\ autoRotating' = TRUE
    /\ savedOrientation(changed)
    /\ UNCHANGED <<dnGlobe, ctrlGlobe, projRev, maskSerial, redrawPending, moving, lastUse>>
    /\ UNCHANGED notMaskVars

\* updateAutoRotation(): projection.rotate, then inputController "move"; a
\* renderer, once built, arms doDraw_throttled.
AutoRotateStep ==
    /\ autoRotating
    /\ dnGlobe # NoGlobe
    /\ projRev[dnGlobe] < MaxMutations
    /\ projRev' = mutate(projRev, dnGlobe)
    /\ redrawPending' = (redrawPending \/ ctrlGlobe # NoGlobe)
    /\ quiet' = FALSE
    /\ UNCHANGED <<dnGlobe, ctrlGlobe, maskCache, maskSerial, moving, autoRotating, lastUse>>
    /\ UNCHANGED notMaskVars

\* stopAutoRotation()
StopAutoRotation(changed) ==
    /\ autoRotating
    /\ autoRotating' = FALSE
    /\ savedOrientation(changed)
    /\ UNCHANGED <<dnGlobe, ctrlGlobe, projRev, maskSerial, redrawPending, moving, lastUse>>
    /\ UNCHANGED notMaskVars

\* updateDayNight off a timer: the one-second interval, or the timeout a
\* globe update, a "render" or a "redraw" set
UpdateDayNight ==
    /\ updateDayNight(maskCache, projRev, quiet)
    /\ UNCHANGED <<dnGlobe, ctrlGlobe, projRev, redrawPending, moving, autoRotating>>
    /\ UNCHANGED notMaskVars

\* the one-minute interval: invalidateMask(); updateDayNight()
RefreshMask ==
    /\ updateDayNight(invalidateMask, projRev, FALSE)
    /\ UNCHANGED <<dnGlobe, ctrlGlobe, projRev, redrawPending, moving, autoRotating>>
    /\ UNCHANGED notMaskVars

NextMask ==
    \/ GlobeUpdate
    \/ BuildRenderer
    \/ Reorient
    \/ Drag
    \/ Redrawn
    \/ MoveEnd
    \/ \E changed \in BOOLEAN : StartAutoRotation(changed)
    \/ AutoRotateStep
    \/ \E changed \in BOOLEAN : StopAutoRotation(changed)
    \/ UpdateDayNight
    \/ RefreshMask

\* ------------------------------------------------- day/night status
MaxClockTicks == 2    \* hours the wall clock advances

\* 1000 * Math.sin of 0, 15, ..., 90 degrees
SinTable == <<0, 259, 500, 707, 866, 966, 1000>>

\* 1000 * Math.sin(d degrees), d a multiple of 15
sinDeg(d) ==
    LET a == d % 360
        b == a % 180
        v == IF b <= 90 THEN SinTable[(b \div 15) + 1] ELSE SinTable[((180 - b) \div 15) + 1]
    IN  IF a < 180 THEN v ELSE -v

\* 1000 * Math.cos(d degrees), d a multiple of 15
cosDeg(d) == sinDeg(d + 90)

\* days of the months before month m (Date.UTC arithmetic, a common year)
DaysBefore == <<0, 31, 59, 90, 120, 151, 181, 212, 243, 273, 304, 334>>
DaysIn == <<31, 28, 31, 30, 31, 30, 31, 31, 30, 31, 30, 31>>

\* Math.floor((date - startOfYear) / (24 * 60 * 60 * 1000)) + 1
dayOfYear(date) == DaysBefore[date.month] + (date.day - 1) + 1

\* 2 * PI * (284 + n) / 365 in degrees, to the nearest multiple of 15
yearAngle(n) == (((720 * (284 + n) + 15 * 365) \div (30 * 365)) * 15) % 360

\* 1000 * sin(declination), declination = 23.45 degrees * sin(yearAngle):
\* sin(23.45 degrees) = 0.398, scaled by the sine of the year angle
sinDeclination(n) == Quot(398 * sinDeg(yearAngle(n)), 1000)

\* 1000 * cos(declination) = 1000 * sqrt(1 - sin^2), to second order
cosDeclination(n) == 1000 - ((sinDeclination(n) * sinDeclination(n)) \div 2000)

\* hourAngle without the noon offset.
hourAngle_fromMidnight(date, lambda) == date.hour * 15 + lambda

\* hourAngle = ((hours - 12) * 15 + lambda), in degrees
hourAngle(date, lambda) == (date.hour - 12) * 15 + lambda

\* 10^6 * sinElevation, clamped
sinElevation(lambda, phi, date) ==
    LET n == dayOfYear(date) IN
    clamp(sinDeg(phi) * sinDeclination(n)
            + Quot(cosDeg(phi) * cosDeclination(n) * cosDeg(hourAngle(date, lambda)), 1000),
          -1000000, 1000000)

NoDate == [month |-> 0, day |-> 0, hour |-> 0]     \* no date argument

\* calculateDayNightStatus that uses a date it was passed.
calculateDayNightStatus_passedDate(lambda, phi, date, clock) ==
    sinElevation(lambda, phi, IF date = NoDate THEN clock ELSE date) > 0

\* calculateDayNightStatus(lambda, phi, date) with the wall clock at clock:
\* date = new Date(); elevation > 0, and asin keeps the sign
calculateDayNightStatus(lambda, phi, date, clock) ==
    sinElevation(lambda, phi, clock) > 0

\* the points classified and the clocks the model starts from
SunPoints == {<<0, 0>>, <<90, 45>>, <<-90, -75>>, <<180, 0>>, <<0, 75>>}
StartDates == {<<3, 21>>, <<6, 21>>, <<9, 23>>, <<12, 31>>}
ValidityDates ==
    {[month |-> 1, day |-> 1, hour |-> 0], [month |-> 6, day |-> 21, hour |-> 12],
     [month |-> 9, day |-> 23, hour |-> 0]}

NoStatus == [called |-> FALSE, point |-> <<0, 0>>, date |-> NoDate, at |-> NoDate,
             isDay |-> FALSE, sinElevation |-> 0]

clockNotFollowed ==
    /\ now = [month |-> 3, day |-> 21, hour |-> 12]
    /\ cfgDate = [month |-> 1, day |-> 1, hour |-> 0]
    /\ dnStatus = NoStatus
    /\ clockTicks = 0

clockRunning ==
    \E d \in StartDates, h \in 0..23, v \in ValidityDates :
        /\ now = [month |-> d[1], day |-> d[2], hour |-> h]
        /\ cfgDate = v
        /\ dnStatus = NoStatus
        /\ clockTicks = 0

\* the wall clock an hour later
nextHour(date) ==
    IF date.hour < 23 THEN [date EXCEPT !.hour = @ + 1]
    ELSE IF date.day < DaysIn[date.month] THEN [date EXCEPT !.hour = 0, !.day = @ + 1]
    ELSE [month |-> (date.month % 12) + 1, day |-> 1, hour |-> 0]

\* an hour passes
ClockTick ==
    /\ clockTicks < MaxClockTicks
    /\ clockTicks' = clockTicks + 1
    /\ now' = nextHour(now)
    /\ UNCHANGED <<cfgDate, dnStatus>>
    /\ UNCHANGED notSunVars

\* configuration date / hour changes: another grid validity time is shown
ChangeValidity(v) ==
    /\ v # cfgDate
    /\ cfgDate' = v
    /\ UNCHANGED <<now, dnStatus, clockTicks>>
    /\ UNCHANGED notSunVars

\* drawDayNightOverlay's call for one pixel's coordinate (currentDate is the
\* wall clock), or a call with another date argument or none
Classify(p, date) ==
    /\ date \in {now, cfgDate, NoDate}
    /\ dnStatus' = [called |-> TRUE, point |-> p, date |-> date, at |-> now,
                    isDay |-> calculateDayNightStatus(p[1], p[2], date, now),
                    sinElevation |-> sinElevation(p[1], p[2], now)]
    /\ UNCHANGED <<now, cfgDate, clockTicks>>
    /\ UNCHANGED notSunVars

NextSun ==
    \/ ClockTick
    \/ \E v \in ValidityDates : ChangeValidity(v)
    \/ \E p \in SunPoints, date \in ValidityDates \cup {NoDate} \cup {now} : Classify(p, date)

\* ------------------------------------------------------- input controller
\* buildInputController: D3's zoomstart / zoom / zoomend events are turned
\* into moveStart / move / moveEnd and click events.  Screen points are
\* pairs of pixels; scales are small integers.
MaxInputs == 7    \* events delivered to the controller

MIN_MOVE == 4

Points == {<<0, 0>>, <<1, 0>>, <<3, 3>>}

Scales == {1, 2}

NoOp == [type |-> "none", startMouse |-> <<0, 0>>, startScale |-> 0]

NoLog == [starts |-> 0, moves |-> 0, since |-> 0]

NoInput == [name |-> "none", mouse |-> <<0, 0>>, scale |-> 0]

NoCoord == <<>>

Event(name) == [name |-> name, point |-> <<>>, coord |-> NoCoord]

newOp(startMouse, startScale) ==
    [type |-> "click", startMouse |-> startMouse, startScale |-> startScale]

\* The square of the distance between two screen points.
distanceMoved2(a, b) == (a[1] - b[1]) * (a[1] - b[1]) + (a[2] - b[2]) * (a[2] - b[2])

\* globe.projection.invert: a screen point off the globe has no coordinate.
invert(p, onGlobe) == IF onGlobe THEN <<10 * p[1] - 20, 15 - 10 * p[2]>> ELSE NoCoord

\* Line 133: the update neither moved the pointer far nor changed the scale.
barelyMoved(o, m, s) ==
    s = o.startScale /\ distanceMoved2(m, o.startMouse) < MIN_MOVE * MIN_MOVE

zoomType_notSticky(o, m, s) ==
    IF o.type \in {"click", "spurious"} /\ barelyMoved(o, m, s)
    THEN IF distanceMoved2(m, o.startMouse) > 0 THEN "click" ELSE "spurious"
    ELSE IF s # o.startScale THEN "zoom" ELSE "drag"

\* The type the zoom handler leaves the operation with.
zoomType(o, m, s) ==
    IF o.type \in {"click", "spurious"} /\ barelyMoved(o, m, s)
    THEN IF distanceMoved2(m, o.startMouse) > 0 THEN "click" ELSE "spurious"
    ELSE IF s # o.startScale THEN "zoom"
    ELSE IF o.type \in {"click", "spurious"} THEN "drag" ELSE o.type

zoomEvents_startEveryUpdate(o, m, s) ==
    IF o.type \in {"click", "spurious"} /\ barelyMoved(o, m, s) THEN <<>>
    ELSE <<Event("moveStart"), Event("move")>>

\* The events the zoom handler triggers.
zoomEvents(o, m, s) ==
    IF o.type \in {"click", "spurious"}
    THEN IF barelyMoved(o, m, s) THEN <<>> ELSE <<Event("moveStart"), Event("move")>>
    ELSE <<Event("move")>>

zoomendEvents_endPoint(o, m, onGlobe) ==
    IF o.type = "click"
    THEN <<[name |-> "click", point |-> m, coord |-> invert(m, onGlobe)]>>
    ELSE <<>>

\* The events the zoomend handler triggers at once; m is where the pointer is.
zoomendEvents(o, m, onGlobe) ==
    IF o.type = "click"
    THEN <<[name |-> "click", point |-> o.startMouse, coord |-> invert(o.startMouse, onGlobe)]>>
    ELSE <<>>

count(events, name) == Cardinality({i \in DOMAIN events : events[i].name = name})

noGesture ==
    /\ op = NoOp
    /\ zoomScale = 1
    /\ inputGlobe = FALSE
    /\ endPending = FALSE
    /\ out = <<>>
    /\ opLog = NoLog
    /\ lastInput = NoInput
    /\ thrown = FALSE
    /\ inputs = 0

delivered(name, m, s) ==
    /\ inputs < MaxInputs
    /\ inputs' = inputs + 1
    /\ lastInput' = [name |-> name, mouse |-> m, scale |-> s]

\* dispatch.globe(_): the renderer injects the globe, which reorients.
InjectGlobe(s) ==
    /\ delivered("globe", <<0, 0>>, s)
    /\ inputGlobe' = TRUE
    /\ zoomScale' = s
    /\ out' = <<Event("moveStart"), Event("moveEnd")>>
    /\ thrown' = FALSE
    /\ UNCHANGED <<op, opLog, endPending>>
    /\ UNCHANGED notInputVars

\* reorient: the orientation changed from a source other than moveEnd and
\* autoRotate (a new hash, show-location).
InputReorient(s) ==
    /\ delivered("reorient", <<0, 0>>, s)
    /\ zoomScale' = IF inputGlobe THEN s ELSE zoomScale
    /\ out' = IF inputGlobe THEN <<Event("moveStart"), Event("moveEnd")>> ELSE <<>>
    /\ thrown' = FALSE
    /\ UNCHANGED <<op, opLog, endPending, inputGlobe>>
    /\ UNCHANGED notInputVars

ZoomStart(m) ==
    /\ delivered("zoomstart", m, zoomScale)
    /\ IF op # NoOp
       THEN thrown' = FALSE /\ UNCHANGED <<op, opLog>>
       ELSE IF inputGlobe
            THEN op' = newOp(m, zoomScale) /\ opLog' = NoLog /\ thrown' = FALSE
            ELSE thrown' = TRUE /\ UNCHANGED <<op, opLog>>   \* globe.manipulator of undefined
    /\ out' = <<>>
    /\ UNCHANGED <<zoomScale, endPending, inputGlobe>>
    /\ UNCHANGED notInputVars

Zoom(m, s) ==
    /\ delivered("zoom", m, s)
    /\ zoomScale' = s
    /\ IF op = NoOp /\ ~inputGlobe
       THEN thrown' = TRUE /\ out' = <<>> /\ UNCHANGED <<op, opLog>>
       ELSE LET o == IF op # NoOp THEN op ELSE newOp(m, 1)
                log == IF op # NoOp THEN opLog ELSE NoLog
                type == zoomType(o, m, s)
                events == zoomEvents(o, m, s)
            IN /\ op' = [o EXCEPT !.type = type]
               /\ out' = events
               /\ opLog' = [starts |-> log.starts + count(events, "moveStart"),
                            moves |-> log.moves + count(events, "move"),
                            since |-> log.since + (IF type \in {"drag", "zoom"} THEN 1 ELSE 0)]
               /\ thrown' = FALSE
    /\ UNCHANGED <<endPending, inputGlobe>>
    /\ UNCHANGED notInputVars

ZoomEnd(m, onGlobe) ==
    /\ delivered("zoomend", m, zoomScale)
    /\ IF op = NoOp
       THEN thrown' = TRUE /\ out' = <<>> /\ UNCHANGED <<op, opLog, endPending>>   \* op.manipulator of null
       ELSE /\ out' = zoomendEvents(op, m, onGlobe)
            /\ endPending' = (endPending \/ op.type \in {"drag", "zoom"})
            /\ op' = NoOp
            /\ thrown' = FALSE
            /\ UNCHANGED opLog
    /\ UNCHANGED <<zoomScale, inputGlobe>>
    /\ UNCHANGED notInputVars

\* The debounced signalEnd runs, MOVE_END_WAIT after the latest zoomend of a
\* drag or zoom.
MoveEndWait ==
    /\ endPending
    /\ delivered("signalEnd", <<0, 0>>, zoomScale)
    /\ endPending' = FALSE
    /\ out' = IF op = NoOp \/ op.type \notin {"drag", "zoom"} THEN <<Event("moveEnd")>> ELSE <<>>
    /\ thrown' = FALSE
    /\ UNCHANGED <<op, opLog, zoomScale, inputGlobe>>
    /\ UNCHANGED notInputVars

NextInput ==
    \/ \E s \in Scales : InjectGlobe(s)
    \/ \E s \in Scales : InputReorient(s)
    \/ \E m \in Points : ZoomStart(m)
    \/ \E m \in Points, s \in Scales : Zoom(m, s)
    \/ \E m \in Points, onGlobe \in BOOLEAN : ZoomEnd(m, onGlobe)
    \/ MoveEndWait

\* ------------------------------------------- auto-rotation, animation frame
\* The auto-rotation loop (requestAnimationFrame), the listeners that pause
\* and resume it around user gestures, its restart on a globe update, the
\* host's entry points, and the animator's frame().  Each action is one
\* event-loop turn.  One minute passes between two rotation steps.
MaxSpinSteps == 9     \* steps followed

MaxSpinGlobes == 2    \* globes published

MaxTimers == 2        \* pending timers and loops of one kind

SpinGlobes == 1..MaxSpinGlobes

Speeds == {0, 90}

UserLons == {-90, 45}

NoFrameSeen == [evolve |-> <<NoGlobe, 0>>, draw |-> <<NoGlobe, 0>>]

\* JavaScript's %: the remainder has the sign of the dividend.
Rem(a, b) == a - b * Quot(a, b)

\* Line 1684: wrap a longitude into [-180, 180).
wrapLongitude(l) == Rem(Rem(l + 180, 360) + 360, 360) - 180

\* frame(): the globe read once at the start of the frame.
frameGlobe(value, closure) == IF value # NoGlobe THEN value ELSE closure

currentGlobe_closure(passed, value, closure) == closure

\* draw(): the globe it projects with.
currentGlobe(passed, value, closure) ==
    IF passed # NoGlobe THEN passed
    ELSE IF value # NoGlobe THEN value ELSE closure

notSpinning ==
    /\ spinGlobe = NoGlobe
    /\ animGlobe = NoGlobe
    /\ rotateLon = [g \in SpinGlobes |-> 0]
    /\ autoRotateSpeed = 0
    /\ autoRotateAnimationFrame = "null"
    /\ autoRotatePaused = FALSE
    /\ lastAutoRotateTime = "null"
    /\ resumeLoops = 0
    /\ resumeTimers = 0
    /\ restartTimers = <<>>
    /\ gesture = FALSE
    /\ hostOff = FALSE
    /\ rotated = FALSE
    /\ frameSaw = NoFrameSeen
    /\ spinSteps = 0

spinStep ==
    /\ spinSteps < MaxSpinSteps
    /\ spinSteps' = spinSteps + 1

\* updateAutoRotation(): what it does to the projection and the timer.
updateAutoRotation ==
    IF autoRotatePaused \/ autoRotateSpeed = 0 \/ spinGlobe = NoGlobe
    THEN rotated' = FALSE /\ UNCHANGED <<rotateLon, lastAutoRotateTime>>
    ELSE IF lastAutoRotateTime = "null"
         THEN rotated' = FALSE /\ lastAutoRotateTime' = "set" /\ UNCHANGED rotateLon
         ELSE /\ rotateLon' = [rotateLon EXCEPT
                                  ![spinGlobe] = wrapLongitude(@ - autoRotateSpeed)]
              /\ rotated' = TRUE
              /\ UNCHANGED lastAutoRotateTime

\* stopAutoRotation(): the queued callback the handle names is cancelled.
stopAutoRotation ==
    /\ autoRotateAnimationFrame' = "null"
    /\ autoRotateSpeed' = 0
    /\ autoRotatePaused' = FALSE
    /\ lastAutoRotateTime' = "null"

\* startAutoRotation(speed): stopAutoRotation(), then a new loop if speed > 0.
startAutoRotation(speed) ==
    IF speed > 0
    THEN /\ autoRotateSpeed' = speed
         /\ lastAutoRotateTime' = "set"
         /\ autoRotatePaused' = FALSE
         /\ autoRotateAnimationFrame' = "pending"
    ELSE stopAutoRotation

\* window.setAutoRotateSpeed(speed), window.startAutoRotation(speed) and
\* window.stopAutoRotation().
SetAutoRotateSpeed(speed) ==
    /\ spinStep
    /\ IF speed > 0 THEN startAutoRotation(speed) ELSE stopAutoRotation
    /\ hostOff' = (speed = 0)
    /\ rotated' = FALSE
    /\ UNCHANGED <<spinGlobe, animGlobe, rotateLon, resumeLoops, resumeTimers,
                   restartTimers, gesture, frameSaw>>
    /\ UNCHANGED notSpinVars

\* animate() of startAutoRotation, called by the browser: its handle is the
\* one autoRotateAnimationFrame holds.
Animate ==
    /\ spinStep
    /\ autoRotateAnimationFrame = "pending"
    /\ IF autoRotateSpeed > 0 /\ ~autoRotatePaused
       THEN updateAutoRotation /\ UNCHANGED autoRotateAnimationFrame
       ELSE /\ autoRotateAnimationFrame' = "stale"
            /\ rotated' = FALSE
            /\ UNCHANGED <<rotateLon, lastAutoRotateTime>>
    /\ UNCHANGED <<spinGlobe, animGlobe, autoRotateSpeed, autoRotatePaused, resumeLoops,
                   resumeTimers, restartTimers, gesture, hostOff, frameSaw>>
    /\ UNCHANGED notSpinVars

\* animate() of resumeAutoRotation, called by the browser: no handle is kept.
AnimateResumed ==
    /\ spinStep
    /\ resumeLoops > 0
    /\ IF autoRotateSpeed > 0 /\ ~autoRotatePaused
       THEN updateAutoRotation /\ UNCHANGED resumeLoops
       ELSE /\ resumeLoops' = resumeLoops - 1
            /\ rotated' = FALSE
            /\ UNCHANGED <<rotateLon, lastAutoRotateTime>>
    /\ UNCHANGED <<spinGlobe, animGlobe, autoRotateSpeed, autoRotatePaused,
                   autoRotateAnimationFrame, resumeTimers, restartTimers, gesture,
                   hostOff, frameSaw>>
    /\ UNCHANGED notSpinVars

\* inputController "moveStart": pauseAutoRotation()
SpinMoveStart ==
    /\ spinStep
    /\ spinGlobe # NoGlobe
    /\ autoRotatePaused' = TRUE
    /\ lastAutoRotateTime' = "null"
    /\ gesture' = TRUE
    /\ rotated' = FALSE
    /\ UNCHANGED <<spinGlobe, animGlobe, rotateLon, autoRotateSpeed,
                   autoRotateAnimationFrame, resumeLoops, resumeTimers, restartTimers,
                   hostOff, frameSaw>>
    /\ UNCHANGED notSpinVars

\* inputController "move" of a drag: op.manipulator.move turns the globe.
SpinMove(l) ==
    /\ spinStep
    /\ gesture
    /\ rotateLon' = [rotateLon EXCEPT ![spinGlobe] = l]
    /\ rotated' = FALSE
    /\ UNCHANGED <<spinGlobe, animGlobe, autoRotateSpeed, autoRotateAnimationFrame,
                   autoRotatePaused, lastAutoRotateTime, resumeLoops, resumeTimers,
                   restartTimers, gesture, hostOff, frameSaw>>
    /\ UNCHANGED notSpinVars

\* inputController "moveEnd": setTimeout(resumeAutoRotation, 500)
SpinMoveEnd ==
    /\ spinStep
    /\ gesture
    /\ resumeTimers < MaxTimers
    /\ resumeTimers' = resumeTimers + 1
    /\ gesture' = FALSE
    /\ rotated' = FALSE
    /\ UNCHANGED <<spinGlobe, animGlobe, rotateLon, autoRotateSpeed,
                   autoRotateAnimationFrame, autoRotatePaused, lastAutoRotateTime,
                   resumeLoops, restartTimers, hostOff, frameSaw>>
    /\ UNCHANGED notSpinVars

\* The 500 ms timer: resumeAutoRotation()
ResumeAutoRotation ==
    /\ spinStep
    /\ resumeTimers > 0
    /\ resumeTimers' = resumeTimers - 1
    /\ IF autoRotateSpeed > 0
       THEN /\ resumeLoops < MaxTimers
            /\ autoRotatePaused' = FALSE
            /\ lastAutoRotateTime' = "set"
            /\ resumeLoops' = resumeLoops + 1
       ELSE UNCHANGED <<autoRotatePaused, lastAutoRotateTime, resumeLoops>>
    /\ rotated' = FALSE
    /\ UNCHANGED <<spinGlobe, animGlobe, rotateLon, autoRotateSpeed,
                   autoRotateAnimationFrame, restartTimers, gesture, hostOff, frameSaw>>
    /\ UNCHANGED notSpinVars

\* globeAgent "update": a new Globe is published; the auto-rotation listener
\* schedules a restart, the animator's listener starts an animation unless one
\* is active.
SpinGlobeUpdate(g) ==
    /\ spinStep
    /\ g = spinGlobe + 1
    /\ spinGlobe' = g
    /\ animGlobe' = IF animGlobe # NoGlobe THEN animGlobe ELSE g
    /\ IF autoRotateSpeed > 0
       THEN /\ Len(restartTimers) < MaxTimers
            /\ restartTimers' = Append(restartTimers, autoRotateSpeed)
            /\ autoRotateSpeed' = 0
            /\ autoRotatePaused' = FALSE
            /\ lastAutoRotateTime' = "null"
       ELSE UNCHANGED <<restartTimers, autoRotateSpeed, autoRotatePaused,
                        lastAutoRotateTime>>
    /\ rotated' = FALSE
    /\ UNCHANGED <<rotateLon, autoRotateAnimationFrame, resumeLoops, resumeTimers,
                   gesture, hostOff, frameSaw>>
    /\ UNCHANGED notSpinVars

\* The 100 ms timer of the globe update: startAutoRotation(currentSpeed)
RestartAutoRotation ==
    /\ spinStep
    /\ restartTimers # <<>>
    /\ restartTimers' = Tail(restartTimers)
    /\ startAutoRotation(Head(restartTimers))
    /\ rotated' = FALSE
    /\ UNCHANGED <<spinGlobe, animGlobe, rotateLon, resumeLoops, resumeTimers, gesture,
                   hostOff, frameSaw>>
    /\ UNCHANGED notSpinVars

\* gridAgent "update": startAnimation() submits animate with the current globe.
StartAnimation ==
    /\ spinStep
    /\ spinGlobe # NoGlobe
    /\ animGlobe' = spinGlobe
    /\ rotated' = FALSE
    /\ UNCHANGED <<spinGlobe, rotateLon, autoRotateSpeed, autoRotateAnimationFrame,
                   autoRotatePaused, lastAutoRotateTime, resumeLoops, resumeTimers,
                   restartTimers, gesture, hostOff, frameSaw>>
    /\ UNCHANGED notSpinVars

\* frame() of a running animation: evolve(frameGlobe); draw(frameGlobe)
Frame ==
    /\ spinStep
    /\ animGlobe # NoGlobe
    /\ LET passed == frameGlobe(spinGlobe, animGlobe)
           drawn == currentGlobe(passed, spinGlobe, animGlobe)
       IN frameSaw' = [evolve |-> <<passed, rotateLon[passed]>>,
                       draw |-> <<drawn, rotateLon[drawn]>>]
    /\ rotated' = FALSE
    /\ UNCHANGED <<spinGlobe, animGlobe, rotateLon, autoRotateSpeed,
                   autoRotateAnimationFrame, autoRotatePaused, lastAutoRotateTime,
                   resumeLoops, resumeTimers, restartTimers, gesture, hostOff>>
    /\ UNCHANGED notSpinVars

NextSpin ==
    \/ \E speed \in Speeds : SetAutoRotateSpeed(speed)
    \/ Animate
    \/ AnimateResumed
    \/ SpinMoveStart
    \/ \E l \in UserLons : SpinMove(l)
    \/ SpinMoveEnd
    \/ ResumeAutoRotation
    \/ \E g \in SpinGlobes : SpinGlobeUpdate(g)
    \/ RestartAutoRotation
    \/ StartAnimation
    \/ Frame

\* ------------------------------------------------- the animator's fields
\* startAnimation submits animate with fieldAgent.value(); the frame loop of
\* a cancelled animate task releases the field it was given.
MaxFields == 3       \* fields published

MaxRelSteps == 7     \* steps followed

NullField == 0

NoLookup == [field |-> NullField, released |-> FALSE]

noAnimation ==
    /\ published = NullField
    /\ fieldsBuilt = 0
    /\ releasedFields = {}
    /\ animations = {}
    /\ lookup = NoLookup
    /\ relSteps = 0

relStep ==
    /\ relSteps < MaxRelSteps
    /\ relSteps' = relSteps + 1

\* The agents' cancel: cancel.requested of every task submitted so far.
cancelTasks(tasks) == {[t EXCEPT !.cancelled = TRUE] : t \in tasks}

\* frame() on cancel: if (field && field.release) field.release()
release(f, released) == IF f # NullField THEN released \cup {f} ELSE released

\* fieldAgent "update": interpolateField resolved with a new field.
PublishField ==
    /\ relStep
    /\ fieldsBuilt < MaxFields
    /\ fieldsBuilt' = fieldsBuilt + 1
    /\ published' = fieldsBuilt + 1
    /\ UNCHANGED <<releasedFields, animations, lookup>>
    /\ UNCHANGED notRelVars

\* startAnimation(): animatorAgent.submit(animate, globe, fieldAgent.value(), grids)
SubmitAnimate ==
    /\ relStep
    /\ animations' = cancelTasks(animations) \cup {[field |-> published, cancelled |-> FALSE]}
    /\ UNCHANGED <<published, fieldsBuilt, releasedFields, lookup>>
    /\ UNCHANGED notRelVars

\* gridAgent "submit": stopCurrentAnimation(), animatorAgent.cancel()
StopCurrentAnimation ==
    /\ relStep
    /\ animations # {}
    /\ animations' = cancelTasks(animations)
    /\ UNCHANGED <<published, fieldsBuilt, releasedFields, lookup>>
    /\ UNCHANGED notRelVars

\* frame() of one animate task
AnimationFrame(a) ==
    /\ relStep
    /\ a \in animations
    /\ IF a.cancelled
       THEN /\ releasedFields' = release(a.field, releasedFields)
            /\ animations' = animations \ {a}
       ELSE UNCHANGED <<releasedFields, animations>>
    /\ UNCHANGED <<published, fieldsBuilt, lookup>>
    /\ UNCHANGED notRelVars

\* drawLocationMark / showLocationDetails: a lookup on fieldAgent.value()
LookupField ==
    /\ relStep
    /\ published # NullField
    /\ lookup' = [field |-> published, released |-> published \in releasedFields]
    /\ UNCHANGED <<published, fieldsBuilt, releasedFields, animations>>
    /\ UNCHANGED notRelVars

NextRel ==
    \/ PublishField
    \/ SubmitAnimate
    \/ StopCurrentAnimation
    \/ \E a \in animations : AnimationFrame(a)
    \/ LookupField

\* -------------------------------------------------------- the status line
\* report.status, report.error and report.reset as their callers in earth.js
\* use them, on the one #status element.
MaxCalls == 6        \* calls on report

\* The messages earth.js passes to report.status.
StatusMessages ==
    {"", "Downloading...", "Rendering Globe...", "Initializing...",
     "Finding current position..."}

\* What reaches report.error: a string, or an object with status and message.
Errors ==
    {[status |-> 0, message |-> "Unknown projection: bogus"],
     [status |-> -1, message |-> "Cannot load resource"],
     [status |-> 404, message |-> "Not Found"],
     [status |-> 500, message |-> "Internal Server Error"]}

\* report.error's msg: status 0 stands for an err without a status.
errorMessage(err) ==
    IF err.status = -1 THEN "Server Down"
    ELSE IF err.status = 404 THEN "No Data"
    ELSE IF err.status = 0 THEN err.message
    ELSE ToString(err.status) \o " " \o err.message

NoCall == [fn |-> "none", arg |-> ""]

statusLineEmpty ==
    /\ line = [bad |-> FALSE, text |-> ""]
    /\ lastCall = NoCall
    /\ calls = 0

called(fn, arg) ==
    /\ calls < MaxCalls
    /\ calls' = calls + 1
    /\ lastCall' = [fn |-> fn, arg |-> arg]

\* report.status(msg)
ReportStatus(msg) ==
    /\ called("status", msg)
    /\ line' = report_status(line, msg)
    /\ UNCHANGED notRepVars

\* report.error(err): an agent's reject or fail, or a failed frame
ReportError(err) ==
    /\ called("error", errorMessage(err))
    /\ line' = report_error(line, errorMessage(err))
    /\ UNCHANGED notRepVars

\* configuration "change": report.reset()
ReportReset ==
    /\ called("reset", "")
    /\ line' = report_reset(line)
    /\ UNCHANGED notRepVars

NextRep ==
    \/ \E msg \in StatusMessages : ReportStatus(msg)
    \/ \E err \in Errors : ReportError(err)
    \/ ReportReset

\* --------------------------------------------- Wallpaper Engine properties
\* wallpaper-config.js: applyUserProperties before and after earth.js is
\* ready.  A properties object holds any of the properties; two of them are
\* followed here.
MaxPropSteps == 5    \* steps followed

Absent == "absent"

Keys == {"projection", "overlay"}

PropertyValues ==
    [projection |-> {"orthographic", "equirectangular"}, overlay |-> {"off", "wind", "temp"}]

NoProperties == [k \in Keys |-> Absent]

\* The objects Wallpaper Engine passes: at least one property each.
Properties ==
    {p \in [Keys -> {Absent, "orthographic", "equirectangular", "off", "wind", "temp"}] :
        /\ p # NoProperties
        /\ \A k \in Keys : p[k] = Absent \/ p[k] \in PropertyValues[k]}

\* mapOverlay(value).overlayType
mapOverlay(value) == IF value = "wind" THEN "default" ELSE value

\* applyProperties(properties) on the configuration, earth.js being ready.
applyProperties(cfg, properties) ==
    [projection |-> IF properties["projection"] # Absent
                    THEN properties["projection"] ELSE cfg.projection,
     overlayType |-> IF properties["overlay"] # Absent
                     THEN mapOverlay(properties["overlay"]) ELSE cfg.overlayType]

\* The attributes a property stands for, once applied.
applied(cfg, k, value) ==
    IF k = "projection" THEN cfg.projection = value ELSE cfg.overlayType = mapOverlay(value)

merge(old, new) == [k \in Keys |-> IF new[k] # Absent THEN new[k] ELSE old[k]]

listenerInstalled ==
    /\ pendingProperties = NoProperties
    /\ earthJsReady = FALSE
    /\ configuration = [projection |-> "orthographic", overlayType |-> "default"]
    /\ applyTimer = "none"
    /\ receivedBefore = NoProperties
    /\ laterKeys = {}
    /\ propSteps = 0

propStep ==
    /\ propSteps < MaxPropSteps
    /\ propSteps' = propSteps + 1

\* wallpaperPropertyListener.applyUserProperties(properties)
ApplyUserProperties(properties) ==
    /\ propStep
    /\ IF ~earthJsReady
       THEN /\ pendingProperties' = properties
            /\ receivedBefore' = merge(receivedBefore, properties)
            /\ UNCHANGED <<configuration, laterKeys>>
       ELSE /\ configuration' = applyProperties(configuration, properties)
            /\ laterKeys' = laterKeys \cup {k \in Keys : properties[k] # Absent}
            /\ UNCHANGED <<pendingProperties, receivedBefore>>
    /\ UNCHANGED <<earthJsReady, applyTimer>>
    /\ UNCHANGED notPropVars

\* checkEarthJsReady() finds window.configuration, globes and products.
CheckEarthJsReady ==
    /\ propStep
    /\ ~earthJsReady
    /\ earthJsReady' = TRUE
    /\ applyTimer' = IF pendingProperties # NoProperties THEN "pending" ELSE "none"
    /\ UNCHANGED <<pendingProperties, configuration, receivedBefore, laterKeys>>
    /\ UNCHANGED notPropVars

\* The 200 ms timer: applyProperties(pendingProperties); pendingProperties = null
ApplyPending ==
    /\ propStep
    /\ applyTimer = "pending"
    /\ configuration' = applyProperties(configuration, pendingProperties)
    /\ pendingProperties' = NoProperties
    /\ applyTimer' = "fired"
    /\ UNCHANGED <<earthJsReady, receivedBefore, laterKeys>>
    /\ UNCHANGED notPropVars

NextProp ==
    \/ \E properties \in Properties : ApplyUserProperties(properties)
    \/ CheckEarthJsReady
    \/ ApplyPending

\* ------------------------------------------------------- the weather service
\* weather-service: fetchCurrentGFSData(callback).  A pair's attempt is a
\* promise chain of steps, each a download, a conversion and a write; every
\* step settles, fulfilled or rejected.
datesToTry == <<"today", "yesterday">>

allRuns == <<18, 12, 6, 0>>

Steps == <<"wind", "temp", "relative_humidity", "total_precipitable_water", "total_cloud_water">>

\* outWind, outTemp, outAD, outMSLP, outRH, outTPW, outTCW
OverlayFiles == {"wind", "temp", "air_density", "mean_sea_level_pressure", "relative_humidity",
                 "total_precipitable_water", "total_cloud_water"}

\* What the files hold when the fetch begins: the set an earlier fetch
\* published.
Previous == <<"previous", 0>>

\* The files a step writes, in the order of its writeJsonAtomic calls.
stepWrites(step) ==
    IF step = "temp" THEN <<"temp", "air_density", "mean_sea_level_pressure">> ELSE <<step>>

\* writeJsonAtomic(outputPath, jsonData): the file is replaced by the rename.
writeJsonAtomic(files, outputPath, pair) == [files EXCEPT ![outputPath] = pair]

\* The files after the first n writes of a step of the attempt of pair.
RECURSIVE afterWrites(_, _, _, _)
afterWrites(files, step, n, pair) ==
    IF n = 0 THEN files
    ELSE writeJsonAtomic(afterWrites(files, step, n - 1, pair), stepWrites(step)[n], pair)

RECURSIVE firstRun(_, _)
firstRun(adjustedHour, i) ==
    IF i > Len(allRuns) THEN i
    ELSE IF adjustedHour >= allRuns[i] THEN i
    ELSE firstRun(adjustedHour, i + 1)

getLatestGFSRuns(h) ==
    LET adjustedHour == IF h - 4 < 0 THEN h - 4 + 24 ELSE h - 4
        i == firstRun(adjustedHour, 1)
    IN  SubSeq(allRuns, i, Len(allRuns))

\* What tryDate(dateIndex) and tryRun(runIndex) come to: the attempt of a
\* pair, or the callback with the error.
RECURSIVE tryDate(_, _)

tryRun_giveUp(runs, d, r) ==
    IF r >= Len(runs)
    THEN [next |-> "error", dateIndex |-> d, runIndex |-> r]
    ELSE [next |-> "attempt", dateIndex |-> d, runIndex |-> r]

tryRun(runs, d, r) ==
    IF r >= Len(runs)
    THEN tryDate(runs, d + 1)
    ELSE [next |-> "attempt", dateIndex |-> d, runIndex |-> r]

tryDate(runs, d) ==
    IF d >= Len(datesToTry)
    THEN [next |-> "error", dateIndex |-> d, runIndex |-> 0]
    ELSE tryRun(runs, d, 0)

fetchIdle ==
    /\ hour = 0
    /\ runsToTry = <<>>
    /\ dateIndex = 0
    /\ runIndex = 0
    /\ stepIndex = 0
    /\ fetching = "idle"
    /\ tried = <<>>
    /\ outcomes = <<>>
    /\ callbacks = <<>>
    /\ overlayFiles = [f \in OverlayFiles |-> Previous]

serviceStarted ==
    /\ hour \in 0..23
    /\ runsToTry = <<>>
    /\ dateIndex = 0
    /\ runIndex = 0
    /\ stepIndex = 0
    /\ fetching = "idle"
    /\ tried = <<>>
    /\ outcomes = <<>>
    /\ callbacks = <<>>
    /\ overlayFiles = [f \in OverlayFiles |-> Previous]

\* Carry out what tryDate or tryRun came to.
continue(t) ==
    /\ dateIndex' = t.dateIndex
    /\ runIndex' = t.runIndex
    /\ IF t.next = "attempt"
       THEN /\ stepIndex' = 1
            /\ fetching' = "trying"
            /\ tried' = Append(tried, <<datesToTry[t.dateIndex + 1], runsToTry'[t.runIndex + 1]>>)
            /\ UNCHANGED callbacks
       ELSE /\ stepIndex' = 0
            /\ fetching' = "done"
            /\ callbacks' = Append(callbacks, "error")
            /\ UNCHANGED tried

\* fetchCurrentGFSData(callback): tryDate(0)
FetchCurrentGFSData ==
    /\ fetching = "idle"
    /\ runsToTry' = getLatestGFSRuns(hour)
    /\ continue(tryDate(getLatestGFSRuns(hour), 0))
    /\ UNCHANGED <<hour, outcomes, overlayFiles>>
    /\ UNCHANGED notFetchVars

\* A step of the chain is fulfilled, its files written: the next step, or
\* after the last one callback(null, outWind).
StepFulfilled ==
    /\ fetching = "trying"
    /\ overlayFiles' = afterWrites(overlayFiles, Steps[stepIndex],
                                   Len(stepWrites(Steps[stepIndex])), tried[Len(tried)])
    /\ IF stepIndex < Len(Steps)
       THEN /\ stepIndex' = stepIndex + 1
            /\ UNCHANGED <<fetching, outcomes, callbacks>>
       ELSE /\ stepIndex' = 0
            /\ fetching' = "done"
            /\ outcomes' = Append(outcomes, "ok")
            /\ callbacks' = Append(callbacks, "ok")
    /\ UNCHANGED <<hour, runsToTry, dateIndex, runIndex, tried>>
    /\ UNCHANGED notFetchVars

\* A step of the chain is rejected after n of its writes: the chain's catch
\* calls tryRun(runIndex + 1). The download, the conversion and a write that
\* fails leave the step's file as it was.
StepRejected(n) ==
    /\ fetching = "trying"
    /\ n < Len(stepWrites(Steps[stepIndex]))
    /\ overlayFiles' = afterWrites(overlayFiles, Steps[stepIndex], n, tried[Len(tried)])
    /\ outcomes' = Append(outcomes, "failed")
    /\ runsToTry' = runsToTry
    /\ continue(tryRun(runsToTry, dateIndex, runIndex + 1))
    /\ UNCHANGED hour
    /\ UNCHANGED notFetchVars

NextFetch ==
    \/ FetchCurrentGFSData
    \/ StepFulfilled
    \/ \E n \in 0..2 : StepRejected(n)

\* ------------------------------------------------------ drawing the trails
\* draw(frameGlobe): drawParticleTrail for one particle.  A sample is given by
\* what the projection makes of it: whether it lies within 90 degrees of the
\* view's centre, and the screen point, null, non-finite or finite.
MaxSamples == 3      \* samples in the trail drawn

currentBounds == [x |-> 0, y |-> 0, xMax |-> 19, yMax |-> 5, width |-> 20, height |-> 6]

ScreenPoints == {<<1, 1>>, <<3, 1>>, <<8, 1>>, <<19, 5>>, <<20, 1>>}

TrailSamples ==
    {[front |-> TRUE, kind |-> "point", x |-> p[1], y |-> p[2]] : p \in ScreenPoints}
        \cup {[front |-> TRUE, kind |-> "null", x |-> 0, y |-> 0],
              [front |-> TRUE, kind |-> "nonFinite", x |-> 0, y |-> 0],
              [front |-> FALSE, kind |-> "point", x |-> 2, y |-> 1]}

ClipAngles == {0, 90, 120}

Max(a, b) == IF a >= b THEN a ELSE b

\* hemisphereClip = !!clipAngle && clipAngle <= 90.01
hemisphereClip(angle) == angle # 0 /\ angle <= 90

\* isFrontHemisphere(lambda, phi)
isFrontHemisphere(angle, s) == ~hemisphereClip(angle) \/ s.front

\* !screenPoint || !isFinite(screenPoint[0]) || !isFinite(screenPoint[1])
unprojected(s) == s.kind # "point"

\* visible, without the upper bounds
visible_noUpperBound(x, y) == x >= currentBounds.x /\ y >= currentBounds.y

visible(x, y) ==
    /\ x >= currentBounds.x /\ x <= currentBounds.xMax
    /\ y >= currentBounds.y /\ y <= currentBounds.yMax

\* dist > maxDist, maxDist = Math.max(width, height) * 0.35; squared, 0.35 = 7/20
tooFar(dx, dy) ==
    400 * (dx * dx + dy * dy)
        > 49 * Max(currentBounds.width, currentBounds.height) * Max(currentBounds.width, currentBounds.height)

NoPath == [pathStarted |-> FALSE, lastX |-> 0, lastY |-> 0, calls |-> <<>>]

\* The loop body of drawParticleTrail for sample j.
drawSample(st, angle, s, j) ==
    IF ~isFrontHemisphere(angle, s) THEN [st EXCEPT !.pathStarted = FALSE]
    ELSE IF unprojected(s) THEN [st EXCEPT !.pathStarted = FALSE]
    ELSE IF ~visible(s.x, s.y) THEN [st EXCEPT !.pathStarted = FALSE]
    ELSE IF ~st.pathStarted
    THEN [pathStarted |-> TRUE, lastX |-> s.x, lastY |-> s.y,
          calls |-> Append(st.calls, [call |-> "moveTo", j |-> j, x |-> s.x, y |-> s.y])]
    ELSE IF tooFar(s.x - st.lastX, s.y - st.lastY) THEN [st EXCEPT !.pathStarted = FALSE]
    ELSE [pathStarted |-> TRUE, lastX |-> s.x, lastY |-> s.y,
          calls |-> Append(st.calls, [call |-> "lineTo", j |-> j, x |-> s.x, y |-> s.y])]

RECURSIVE drawLoop(_, _, _, _)
drawLoop(st, angle, samples, j) ==
    IF j > Len(samples) THEN st
    ELSE drawLoop(drawSample(st, angle, samples[j], j), angle, samples, j + 1)

\* drawParticleTrail(pIndex): the canvas calls made
drawParticleTrail(angle, samples) ==
    IF Len(samples) < 2 THEN <<>> ELSE drawLoop(NoPath, angle, samples, 1).calls

RECURSIVE SeqsUpTo(_, _)
SeqsUpTo(S, n) ==
    IF n = 0 THEN {<<>>}
    ELSE LET shorter == SeqsUpTo(S, n - 1)
         IN  shorter \cup {Append(t, s) : t \in {u \in shorter : Len(u) = n - 1}, s \in S}

nothingToDraw ==
    /\ drawTrail = <<>>
    /\ clipAngle = 0
    /\ path = <<>>
    /\ trailDrawn = FALSE

frameToDraw ==
    /\ drawTrail \in SeqsUpTo(TrailSamples, MaxSamples)
    /\ clipAngle \in ClipAngles
    /\ path = <<>>
    /\ trailDrawn = FALSE

\* draw(frameGlobe) reaches the particle.
DrawParticleTrail ==
    /\ ~trailDrawn
    /\ path' = drawParticleTrail(clipAngle, drawTrail)
    /\ trailDrawn' = TRUE
    /\ UNCHANGED <<drawTrail, clipAngle>>
    /\ UNCHANGED notDrawVars

NextDraw == DrawParticleTrail

\* ----------------------------------------------- interpolateField's batches
\* batchInterpolate with its clock: every column takes some milliseconds, and
\* a column may throw.  One invocation runs to completion before anything else
\* does; fieldAgent.cancel() comes between invocations.
MAX_TASK_TIME == 100
MIN_SLEEP_TIME == 25

MaxWidth == 8        \* the widest bounds followed

Widths == 0..MaxWidth              \* bounds.xMax

BatchColumns == {x \in Widths : x % 2 = 0}

ColumnTimes == {40, 70, 120}       \* Date.now() advances by this over a column

Throws == -1                       \* the column throws

NoBatch == [requested |-> FALSE, from |-> 0, elapsed |-> 0, outcome |-> "none"]

\* The while loop from column x with the time elapsed since start; t gives
\* what each column costs.
RECURSIVE batchLoop(_, _, _, _)
batchLoop(x, xMax, elapsed, t) ==
    IF x < xMax
    THEN IF t[x] = Throws
         THEN [x |-> x, elapsed |-> elapsed, outcome |-> "rejected"]
         ELSE IF elapsed + t[x] > MAX_TASK_TIME
              THEN [x |-> x + 2, elapsed |-> elapsed + t[x], outcome |-> "yielded"]
              ELSE batchLoop(x + 2, xMax, elapsed + t[x], t)
    ELSE [x |-> x, elapsed |-> elapsed, outcome |-> "resolved"]

\* batchInterpolate that does not look at the cancel token.
batchInterpolate_ignoringCancel(x, xMax, requested, t) == batchLoop(x, xMax, 0, t)

\* batchInterpolate(), one invocation
batchInterpolate(x, xMax, requested, t) ==
    IF ~requested
    THEN batchLoop(x, xMax, 0, t)
    ELSE [x |-> x, elapsed |-> 0, outcome |-> "resolved"]

noBatch ==
    /\ bx = 0
    /\ bxMax = 0
    /\ cancelRequested = FALSE
    /\ promise = "resolved"
    /\ sleepTimer = 0
    /\ shownProgress = <<1, 1>>
    /\ lastBatch = NoBatch
    /\ batches = 0

\* interpolateField(globe, grids) has been called and is about to call
\* batchInterpolate.
interpolateFieldCalled ==
    /\ bx = 0
    /\ bxMax \in Widths
    /\ cancelRequested = FALSE
    /\ promise = "pending"
    /\ sleepTimer = 0
    /\ shownProgress = <<0, 1>>
    /\ lastBatch = NoBatch
    /\ batches = 0

\* batchInterpolate(): called by interpolateField, or by the timer.
BatchInterpolate(t) ==
    /\ promise = "pending"
    /\ batches = 0 \/ sleepTimer # 0
    /\ \E r \in {batchInterpolate(bx, bxMax, cancelRequested, t)} :
        /\ bx' = r.x
        /\ lastBatch' = [requested |-> cancelRequested, from |-> bx, elapsed |-> r.elapsed,
                         outcome |-> r.outcome]
        /\ IF r.outcome = "yielded"
           THEN /\ shownProgress' = <<r.x, bxMax>>
                /\ sleepTimer' = MIN_SLEEP_TIME
                /\ UNCHANGED promise
           ELSE /\ promise' = r.outcome
                /\ sleepTimer' = 0
                /\ shownProgress' = <<1, 1>>
    /\ batches' = batches + 1
    /\ UNCHANGED <<bxMax, cancelRequested>>
    /\ UNCHANGED notBatchVars

\* fieldAgent.cancel() or a further submit, while the build sleeps
CancelBatch ==
    /\ promise = "pending"
    /\ sleepTimer # 0
    /\ ~cancelRequested
    /\ cancelRequested' = TRUE
    /\ UNCHANGED <<bx, bxMax, promise, sleepTimer, shownProgress, lastBatch, batches>>
    /\ UNCHANGED notBatchVars

NextBatch ==
    \/ \E t \in [BatchColumns -> ColumnTimes \cup {Throws}] : BatchInterpolate(t)
    \/ CancelBatch

\* ------------------------------------- who cancels the field interpolation
\* init's listeners on rendererAgent "start", "redraw" and "render", with the
\* handlers that emit those events: the user's gesture, the auto-rotation
\* loop, stopAutoRotation and the grid's update.
MaxOverlaySteps == 5      \* steps followed

\* The interpolations in flight whose token has not been requested.
Live(ags) == Running(ags["field"]) \ ags["field"].requested

\* updateAutoRotation's test before rendererAgent.trigger("render"), without
\* fieldInterpolating.
overlayRenderDue_unguarded(throttleOpen, busy) == throttleOpen

\* (!lastOverlayRenderTime || (now - lastOverlayRenderTime) > 600) && !fieldInterpolating
overlayRenderDue(throttleOpen, busy) == throttleOpen /\ ~busy

\* The event as the history keeps it: stopped are the interpolations in
\* flight that its listeners cancelled or replaced.
Emitted(event, by, interacting, before, after) ==
    [event |-> event, by |-> by, interacting |-> interacting,
     stopped |-> Live(before) \ Live(after)]

\* The "redraw" listener without the test of userInteracting: every redraw
\* cancels.
onRedraw_always(ags, interacting) == cancelInterpolation(ags)

\* The "redraw" listener.
onRedraw(ags, interacting) == IF interacting THEN cancelInterpolation(ags) ELSE ags

listenersAttached ==
    /\ overlayAgents = [a \in Agents |-> newAgentState]
    /\ userInteracting = FALSE
    /\ interpolating = FALSE
    /\ overlaySpinning = FALSE
    /\ emitted = <<>>
    /\ overlaySteps = 0

overlayStep ==
    /\ overlaySteps < MaxOverlaySteps
    /\ overlaySteps' = overlaySteps + 1

\* gridAgent "update": startInterpolation.
OverlayGridUpdate ==
    /\ overlayStep
    /\ overlayAgents' = startInterpolation(overlayAgents)
    /\ interpolating' = TRUE
    /\ emitted' = <<>>
    /\ UNCHANGED <<userInteracting, overlaySpinning>>
    /\ UNCHANGED notOverlayVars

\* The user's moveStart: userInteracting = true, and the renderer's "start".
OverlayMoveStart ==
    /\ overlayStep
    /\ ~userInteracting
    /\ userInteracting' = TRUE
    /\ overlayAgents' = cancelInterpolation(overlayAgents)
    /\ emitted' = <<Emitted("start", "user", TRUE, overlayAgents, overlayAgents')>>
    /\ UNCHANGED <<interpolating, overlaySpinning>>
    /\ UNCHANGED notOverlayVars

\* The user's move: doDraw emits "redraw".
OverlayMove ==
    /\ overlayStep
    /\ userInteracting
    /\ overlayAgents' = onRedraw(overlayAgents, userInteracting)
    /\ emitted' = <<Emitted("redraw", "user", userInteracting, overlayAgents, overlayAgents')>>
    /\ UNCHANGED <<userInteracting, interpolating, overlaySpinning>>
    /\ UNCHANGED notOverlayVars

\* The user's moveEnd: userInteracting = false, and the renderer's "render".
OverlayMoveEnd ==
    /\ overlayStep
    /\ userInteracting
    /\ userInteracting' = FALSE
    /\ overlayAgents' = startInterpolation(overlayAgents)
    /\ interpolating' = TRUE
    /\ emitted' = <<Emitted("render", "user", TRUE, overlayAgents, overlayAgents')>>
    /\ UNCHANGED overlaySpinning
    /\ UNCHANGED notOverlayVars

\* updateAutoRotation(): inputController "move", so a "redraw"; then, when
\* due, "render".
OverlayAutoRotation(throttleOpen) ==
    /\ overlayStep
    /\ overlaySpinning
    /\ LET redrawn == onRedraw(overlayAgents, userInteracting)
           first == Emitted("redraw", "updateAutoRotation", userInteracting, overlayAgents, redrawn)
       IN  IF overlayRenderDue(throttleOpen, interpolating)
           THEN /\ overlayAgents' = startInterpolation(redrawn)
                /\ interpolating' = TRUE
                /\ emitted' = <<first, Emitted("render", "updateAutoRotation", userInteracting,
                                               redrawn, overlayAgents')>>
           ELSE /\ overlayAgents' = redrawn
                /\ emitted' = <<first>>
                /\ UNCHANGED interpolating
    /\ UNCHANGED <<userInteracting, overlaySpinning>>
    /\ UNCHANGED notOverlayVars

\* setAutoRotateSpeed(speed): startAutoRotation calls stopAutoRotation, which
\* emits "render".
OverlaySetSpeed(speed) ==
    /\ overlayStep
    /\ overlayAgents' = startInterpolation(overlayAgents)
    /\ interpolating' = TRUE
    /\ overlaySpinning' = (speed > 0)
    /\ emitted' = <<Emitted("render", "stopAutoRotation", userInteracting, overlayAgents,
                             overlayAgents')>>
    /\ UNCHANGED userInteracting
    /\ UNCHANGED notOverlayVars

\* The interpolation's promise resolves: fieldAgent "update" unless cancelled.
OverlayFieldResolve(id) ==
    /\ overlayStep
    /\ id \in Running(overlayAgents["field"])
    /\ overlayAgents' = [overlayAgents EXCEPT !["field"] = accept(@, id)]
    /\ interpolating' = IF Delivered(overlayAgents["field"], id) THEN FALSE ELSE interpolating
    /\ emitted' = <<>>
    /\ UNCHANGED <<userInteracting, overlaySpinning>>
    /\ UNCHANGED notOverlayVars

\* The same, as the last batch's timer brings it about: it waits for no
\* handler and is not among the steps counted.
OverlayFieldSettles(id) ==
    /\ id \in Running(overlayAgents["field"])
    /\ overlayAgents' = [overlayAgents EXCEPT !["field"] = accept(@, id)]
    /\ interpolating' = IF Delivered(overlayAgents["field"], id) THEN FALSE ELSE interpolating
    /\ emitted' = <<>>
    /\ UNCHANGED <<userInteracting, overlaySpinning, overlaySteps>>
    /\ UNCHANGED notOverlayVars

NextOverlaySettling ==
    \/ OverlayGridUpdate
    \/ OverlayMoveStart
    \/ OverlayMove
    \/ OverlayMoveEnd
    \/ \E throttleOpen \in BOOLEAN : OverlayAutoRotation(throttleOpen)
    \/ \E speed \in Speeds : OverlaySetSpeed(speed)
    \/ \E id \in 1..MaxOverlaySteps : OverlayFieldSettles(id)

NextOverlay ==
    \/ OverlayGridUpdate
    \/ OverlayMoveStart
    \/ OverlayMove
    \/ OverlayMoveEnd
    \/ \E throttleOpen \in BOOLEAN : OverlayAutoRotation(throttleOpen)
    \/ \E speed \in Speeds : OverlaySetSpeed(speed)
    \/ \E id \in 1..MaxOverlaySteps : OverlayFieldResolve(id)

\* ------------------------------------------------------ the grid's rebuilds
\* The gridAgent's listener on configuration "change", buildGrids with its
\* count of downloads, and navigate. The products (products.js) come from
\* outside: what a download yields is any of GridValues.
MaxGridSteps == 4      \* steps followed

LayerAttributes == {"date", "hour", "param", "surface", "level"}

ViewAttributes == {"orientation", "projection", "showGridPoints", "spinSpeed"}

\* _.keys(configuration.changedAttributes()): one attribute, overlayType with
\* another, or date and hour.
ChangedSets ==
    {s \in SUBSET (LayerAttributes \cup ViewAttributes \cup {"overlayType"}) :
        \/ Cardinality(s) = 1
        \/ Cardinality(s) = 2 /\ ("overlayType" \in s \/ s = {"date", "hour"})}

\* The values of the overlayType attribute; "" is an attribute not set.
OverlayTypes == {"", "off", "default", "wind", "temp"}

\* gridAgent.value() before the first grids, and grids without an overlay.
NoGrids == [overlay |-> "none", same |-> FALSE]

\* {primaryGrid, overlayGrid}: the overlay grid's type, and whether it is the
\* primary grid itself (products[1] || products[0]).
GridValues == {NoGrids, [overlay |-> "wind", same |-> TRUE],
               [overlay |-> "temp", same |-> FALSE], [overlay |-> "wind", same |-> FALSE]}

\* configuration.get("overlayType") || "default"
overlayTypeOf(attributes) ==
    IF attributes.overlayType = "" THEN "default" ELSE attributes.overlayType

\* The listener's test without the exception for the default overlay on a
\* shared grid.
rebuildRequired_typesOnly(changed, overlayType, g) ==
    \/ changed \cap LayerAttributes # {}
    \/ /\ "overlayType" \in changed
       /\ overlayType # "off"
       /\ \/ g.overlay = "none"
          \/ g.overlay # overlayType

\* The listener's rebuildRequired.
rebuildRequired(changed, overlayType, g) ==
    \/ changed \cap LayerAttributes # {}
    \/ /\ "overlayType" \in changed
       /\ overlayType # "off"
       /\ \/ g.overlay = "none"
          \/ /\ g.overlay # overlayType
             /\ ~(overlayType = "default" /\ g.same)

\* The attributes after a save that changed the attributes named.
saved(attributes, changed, overlayType) ==
    [date |-> IF "date" \in changed THEN attributes.date + 1 ELSE attributes.date,
     overlayType |-> IF "overlayType" \in changed THEN overlayType
                     ELSE attributes.overlayType]

noGridsYet ==
    /\ cfgAttributes = [date |-> 0, overlayType |-> ""]
    /\ gridAgent = newAgentState
    /\ grids = NoGrids
    /\ downloadsInProgress = 0
    /\ lastGridOp = [op |-> "none", changed |-> {}, done |-> FALSE]
    /\ gridSteps = 0

gridStep ==
    /\ gridSteps < MaxGridSteps
    /\ gridSteps' = gridSteps + 1

\* The listener, and buildGrids when it submits: downloadsInProgress++.
onConfigurationChange(changed) ==
    IF rebuildRequired(changed, overlayTypeOf(cfgAttributes'), grids)
    THEN /\ gridAgent' = submit(gridAgent)
         /\ downloadsInProgress' = downloadsInProgress + 1
    ELSE UNCHANGED <<gridAgent, downloadsInProgress>>

\* configuration.save(attrs) from the menu, the hash or the host: "change".
ConfigurationChange(changed, overlayType) ==
    /\ gridStep
    /\ "overlayType" \in changed <=> overlayType # cfgAttributes.overlayType
    /\ cfgAttributes' = saved(cfgAttributes, changed, overlayType)
    /\ onConfigurationChange(changed)
    /\ lastGridOp' = [op |-> "change", changed |-> changed, done |-> TRUE]
    /\ UNCHANGED grids
    /\ UNCHANGED notGridVars

\* navigate(step); hasNext: primaryGrid.navigate(step) returned a date.
Navigate(hasNext) ==
    /\ gridStep
    /\ grids # NoGrids \/ downloadsInProgress > 0
    /\ IF downloadsInProgress > 0
       THEN /\ lastGridOp' = [op |-> "navigate", changed |-> {}, done |-> FALSE]
            /\ UNCHANGED <<cfgAttributes, gridAgent, downloadsInProgress>>
       ELSE IF hasNext
       THEN /\ cfgAttributes' = saved(cfgAttributes, {"date", "hour"}, cfgAttributes.overlayType)
            /\ onConfigurationChange({"date", "hour"})
            /\ lastGridOp' = [op |-> "navigate", changed |-> {"date", "hour"}, done |-> TRUE]
       ELSE /\ lastGridOp' = [op |-> "navigate", changed |-> {}, done |-> TRUE]
            /\ UNCHANGED <<cfgAttributes, gridAgent, downloadsInProgress>>
    /\ UNCHANGED grids
    /\ UNCHANGED notGridVars

\* The downloads of build id settle: ensure's downloadsInProgress--, then the
\* agent publishes the grids unless the build was cancelled.
DownloadsSettle(id, g, ok) ==
    /\ gridStep
    /\ id \in Running(gridAgent)
    /\ downloadsInProgress' = downloadsInProgress - 1
    /\ gridAgent' = IF ok THEN accept(gridAgent, id) ELSE reject(gridAgent, id)
    /\ grids' = IF ok /\ Delivered(gridAgent, id) THEN g ELSE grids
    /\ lastGridOp' = [op |-> "settle", changed |-> {}, done |-> ok]
    /\ UNCHANGED cfgAttributes
    /\ UNCHANGED notGridVars

NextGrid ==
    \/ \E changed \in ChangedSets, overlayType \in OverlayTypes :
          ConfigurationChange(changed, overlayType)
    \/ \E hasNext \in BOOLEAN : Navigate(hasNext)
    \/ \E id \in 1..MaxGridSteps, g \in GridValues \ {NoGrids}, ok \in BOOLEAN :
          DownloadsSettle(id, g, ok)

\* ------------------------------------------------------ the overlay's colour
\* interpolateColumn's body for one pixel: the wind of the primary grid, the
\* scalar that drives the colour, and the colour written to the mask.
ColumnHeight == 2      \* sampled pixels of the column

\* What the primary grid's interpolate returns: null, a vector with a null
\* magnitude, a vector.
WindSamples == {NoWind, <<1, 1, Null>>, <<1, 1, 7>>}

\* What the overlay grid's interpolate returns when it is a scalar grid: null
\* or a value.
OverlaySamples == {Null, 280}

ColumnPixels ==
    {p \in [kind : {"masked", "noCoord", "nonFinite", "finite"}, wind : WindSamples,
            overlay : OverlaySamples] :
        p.kind # "finite" => (p.wind = NoWind /\ p.overlay = Null)}

\* distort: u and v are rescaled in place, the magnitude is kept.
distort(wind) == <<3 * wind[1], 3 * wind[2], wind[3]>>

\* micro.js isValue: neither null nor undefined.
isValue(x) == x # Null

\* scale.gradient(scalar, alpha): the colour of the scalar, with the alpha.
gradient(x, alpha) == [of |-> x, alpha |-> alpha]

Transparent == [of |-> Null, alpha |-> TRANSPARENT_BLACK]

\* The colour with the wind's magnitude taking precedence over the overlay
\* grid wherever a wind sample exists.
pixelColour_windFirst(p, distinct) ==
    IF p.kind # "finite" THEN Transparent
    ELSE LET fromWind == IF p.wind # NoWind THEN distort(p.wind)[3] ELSE Null
             driving == IF p.wind = NoWind /\ distinct THEN p.overlay ELSE fromWind
         IN  IF isValue(driving) THEN gradient(driving, OVERLAY_ALPHA) ELSE Transparent

\* The colour of a visible pixel.
pixelColour(p, distinct) ==
    IF p.kind # "finite" THEN Transparent
    ELSE LET fromWind == IF p.wind # NoWind THEN distort(p.wind)[3] ELSE Null
             driving == IF distinct THEN p.overlay ELSE fromWind
         IN  IF isValue(driving) THEN gradient(driving, OVERLAY_ALPHA) ELSE Transparent

\* column[y]: wind || HOLE_VECTOR
pixelVector(p) ==
    IF p.kind # "finite" \/ p.wind = NoWind THEN HOLE_VECTOR
    ELSE [obj |-> "wind", mag |-> distort(p.wind)[3]]

noColumn ==
    /\ columnPixels = <<>>
    /\ hasDistinctOverlay = FALSE
    /\ columnY = 1
    /\ coloured = <<>>

columnToDo ==
    /\ columnPixels \in [1..ColumnHeight -> ColumnPixels]
    /\ hasDistinctOverlay \in BOOLEAN
    /\ columnY = 1
    /\ coloured = <<>>

\* One turn of interpolateColumn's loop.
InterpolatePixel ==
    /\ columnY <= Len(columnPixels)
    /\ LET p == columnPixels[columnY] IN
       coloured' = Append(coloured,
                      IF p.kind = "masked"
                      THEN [set |-> FALSE, vector |-> NoEntry, color |-> Transparent]
                      ELSE [set |-> TRUE, vector |-> pixelVector(p),
                            color |-> pixelColour(p, hasDistinctOverlay)])
    /\ columnY' = columnY + 1
    /\ UNCHANGED <<columnPixels, hasDistinctOverlay>>
    /\ UNCHANGED notColourVars

NextColour == InterpolatePixel

\* ------------------------------------------------- the animator's active flag
\* animate sets window._windAnimatorActive, the frame of a cancelled animate
\* clears it, and the animator's listener on the globe's update reads it.
MaxActiveSteps == 6      \* steps followed

noAnimator ==
    /\ frameLoops = {}
    /\ windAnimatorActive = FALSE
    /\ animateCalls = 0
    /\ lastAnimatorOp = "none"
    /\ activeSteps = 0

activeStep ==
    /\ activeSteps < MaxActiveSteps
    /\ activeSteps' = activeSteps + 1

\* animatorAgent.cancel(): cancel.requested of the latest animate call.
cancelAnimator(loops, latest) ==
    {IF l.id = latest THEN [l EXCEPT !.cancelled = TRUE] ELSE l : l \in loops}

\* startAnimation(): animatorAgent.submit(animate, ...) cancels the call before
\* and calls animate, which sets the flag and runs its first frame.
startAnimation ==
    /\ frameLoops' = cancelAnimator(frameLoops, animateCalls)
                        \cup {[id |-> animateCalls + 1, cancelled |-> FALSE]}
    /\ animateCalls' = animateCalls + 1
    /\ windAnimatorActive' = TRUE

\* gridAgent "update": startAnimation()
AnimatorGridUpdate ==
    /\ activeStep
    /\ startAnimation
    /\ lastAnimatorOp' = "start"
    /\ UNCHANGED notActiveVars

\* gridAgent "submit": stopCurrentAnimation(false)
AnimatorGridSubmit ==
    /\ activeStep
    /\ frameLoops' = cancelAnimator(frameLoops, animateCalls)
    /\ lastAnimatorOp' = "cancel"
    /\ UNCHANGED <<windAnimatorActive, animateCalls>>
    /\ UNCHANGED notActiveVars

\* globeAgent "update": the trails of a running animation are reset, or an
\* animation is started.
AnimatorGlobeUpdate ==
    /\ activeStep
    /\ IF windAnimatorActive /\ animateCalls > 0
       THEN /\ lastAnimatorOp' = "resetWindTrails"
            /\ UNCHANGED <<frameLoops, windAnimatorActive, animateCalls>>
       ELSE /\ startAnimation
            /\ lastAnimatorOp' = "start"
    /\ UNCHANGED notActiveVars

\* frame(), called by its timer; throws: evolve or draw threw.
AnimatorFrame(l, throws) ==
    /\ activeStep
    /\ l \in frameLoops
    /\ IF l.cancelled
       THEN /\ windAnimatorActive' = FALSE
            /\ frameLoops' = frameLoops \ {l}
            /\ lastAnimatorOp' = "last frame"
       ELSE IF throws
       THEN /\ frameLoops' = frameLoops \ {l}
            /\ lastAnimatorOp' = "report.error"
            /\ UNCHANGED windAnimatorActive
       ELSE /\ lastAnimatorOp' = "frame"
            /\ UNCHANGED <<frameLoops, windAnimatorActive>>
    /\ UNCHANGED animateCalls
    /\ UNCHANGED notActiveVars

NextActive ==
    \/ AnimatorGridUpdate
    \/ AnimatorGridSubmit
    \/ AnimatorGlobeUpdate
    \/ \E l \in frameLoops, throws \in BOOLEAN : AnimatorFrame(l, throws)

\* ------------------------------------------------ the service's scheduler
\* startWeatherService: runOnce("Initial"), then runOnce("Scheduled") on
\* every tick of the interval and runOnce("Retry") when the retry timer
\* fires. A fetch ends by calling the callback it was given, with an error
\* or without.
MaxServiceSteps == 7      \* steps followed

NoTimer == 0

Labels == {"Initial", "Scheduled", "Retry"}

\* runOnce without the test of inProgress.
runOnce_unguarded(label, busy, runs) ==
    [inProgress |-> TRUE, fetchRuns |-> runs + 1,
     trigger |-> [label |-> label, during |-> runs > 0, skipped |-> FALSE]]

\* runOnce(label), up to the call of fetchCurrentGFSData.
runOnce(label, busy, runs) ==
    IF busy
    THEN [inProgress |-> busy, fetchRuns |-> runs,
          trigger |-> [label |-> label, during |-> runs > 0, skipped |-> TRUE]]
    ELSE [inProgress |-> TRUE, fetchRuns |-> runs + 1,
          trigger |-> [label |-> label, during |-> runs > 0, skipped |-> FALSE]]

schedulerNotStarted ==
    /\ inProgress = FALSE
    /\ retryTimeout = NoTimer
    /\ fetchRuns = 0
    /\ retryTimers = {}
    /\ timersSet = 0
    /\ lastTrigger = [label |-> "none", during |-> FALSE, skipped |-> FALSE]
    /\ serviceSteps = 0

\* startWeatherService() has returned: runOnce("Initial") has run and the
\* interval is set.
schedulerStarted ==
    /\ inProgress = runOnce("Initial", FALSE, 0).inProgress
    /\ retryTimeout = NoTimer
    /\ fetchRuns = runOnce("Initial", FALSE, 0).fetchRuns
    /\ retryTimers = {}
    /\ timersSet = 0
    /\ lastTrigger = runOnce("Initial", FALSE, 0).trigger
    /\ serviceSteps = 0

serviceStep ==
    /\ serviceSteps < MaxServiceSteps
    /\ serviceSteps' = serviceSteps + 1

\* The interval's tick: runOnce("Scheduled").
IntervalTick ==
    /\ serviceStep
    /\ \E r \in {runOnce("Scheduled", inProgress, fetchRuns)} :
        /\ inProgress' = r.inProgress
        /\ fetchRuns' = r.fetchRuns
        /\ lastTrigger' = r.trigger
    /\ UNCHANGED <<retryTimeout, retryTimers, timersSet>>
    /\ UNCHANGED notServiceVars

\* The retry timer t fires: retryTimeout = null; runOnce("Retry").
RetryFires(t) ==
    /\ serviceStep
    /\ t \in retryTimers
    /\ retryTimers' = retryTimers \ {t}
    /\ retryTimeout' = NoTimer
    /\ \E r \in {runOnce("Retry", inProgress, fetchRuns)} :
        /\ inProgress' = r.inProgress
        /\ fetchRuns' = r.fetchRuns
        /\ lastTrigger' = r.trigger
    /\ UNCHANGED timersSet
    /\ UNCHANGED notServiceVars

\* fetchCurrentGFSData calls back: inProgress = false; on an error the retry
\* timer is set unless one is held, otherwise the one held is cleared.
FetchCallback(error) ==
    /\ serviceStep
    /\ fetchRuns > 0
    /\ fetchRuns' = fetchRuns - 1
    /\ inProgress' = FALSE
    /\ IF error
       THEN IF retryTimeout = NoTimer
            THEN /\ timersSet' = timersSet + 1
                 /\ retryTimeout' = timersSet + 1
                 /\ retryTimers' = retryTimers \cup {timersSet + 1}
            ELSE UNCHANGED <<retryTimeout, retryTimers, timersSet>>
       ELSE /\ retryTimers' = retryTimers \ {retryTimeout}
            /\ retryTimeout' = NoTimer
            /\ UNCHANGED timersSet
    /\ UNCHANGED lastTrigger
    /\ UNCHANGED notServiceVars

NextService ==
    \/ IntervalTick
    \/ \E t \in 1..MaxServiceSteps : RetryFires(t)
    \/ \E error \in BOOLEAN : FetchCallback(error)

\* ------------------------------------------------------ specifications
\* No animation is running (the animator agent has no value yet).
idleParticles ==
    /\ grid = "uniform" /\ velocityScale = 1
    /\ lon = 0 /\ lat = 0 /\ age = 0 /\ miss = 0
    /\ trail = EmptyTrail
    /\ last = [outcome |-> "spawn", aged |-> FALSE, from |-> <<0, 0>>, mid |-> <<0, 0>>,
               k1 |-> <<0, 0>>]
    /\ fifo = <<>> /\ pushes = 0 /\ ticks = 0 /\ resets = 0

\* No field has been built or asked for.
noField ==
    /\ scene = [p \in Sampled |-> "masked"]
    /\ columns = [x \in Xs |-> NoColumn]
    /\ fx = 0
    /\ maskData = createMask(scene)
    /\ fieldPhase = "released"
    /\ fCancel = FALSE

InitAgents == constructedAgents /\ idleParticles /\ noField /\ noDayNight /\ clockNotFollowed /\ noGesture /\ notSpinning /\ noAnimation /\ statusLineEmpty /\ listenerInstalled /\ fetchIdle /\ nothingToDraw /\ noBatch /\ listenersAttached /\ noGridsYet /\ noColumn /\ noAnimator /\ schedulerNotStarted

InitParticles == runningParticles /\ constructedAgents /\ noField /\ noDayNight /\ clockNotFollowed /\ noGesture /\ notSpinning /\ noAnimation /\ statusLineEmpty /\ listenerInstalled /\ fetchIdle /\ nothingToDraw /\ noBatch /\ listenersAttached /\ noGridsYet /\ noColumn /\ noAnimator /\ schedulerNotStarted

InitField == buildingField /\ constructedAgents /\ idleParticles /\ noDayNight /\ clockNotFollowed /\ noGesture /\ notSpinning /\ noAnimation /\ statusLineEmpty /\ listenerInstalled /\ fetchIdle /\ nothingToDraw /\ noBatch /\ listenersAttached /\ noGridsYet /\ noColumn /\ noAnimator /\ schedulerNotStarted

InitMask == noDayNight /\ constructedAgents /\ idleParticles /\ noField /\ clockNotFollowed /\ noGesture /\ notSpinning /\ noAnimation /\ statusLineEmpty /\ listenerInstalled /\ fetchIdle /\ nothingToDraw /\ noBatch /\ listenersAttached /\ noGridsYet /\ noColumn /\ noAnimator /\ schedulerNotStarted

InitSun == clockRunning /\ constructedAgents /\ idleParticles /\ noField /\ noDayNight /\ noGesture /\ notSpinning /\ noAnimation /\ statusLineEmpty /\ listenerInstalled /\ fetchIdle /\ nothingToDraw /\ noBatch /\ listenersAttached /\ noGridsYet /\ noColumn /\ noAnimator /\ schedulerNotStarted

InitInput == noGesture /\ constructedAgents /\ idleParticles /\ noField /\ noDayNight /\ clockNotFollowed /\ notSpinning /\ noAnimation /\ statusLineEmpty /\ listenerInstalled /\ fetchIdle /\ nothingToDraw /\ noBatch /\ listenersAttached /\ noGridsYet /\ noColumn /\ noAnimator /\ schedulerNotStarted

InitSpin == notSpinning /\ constructedAgents /\ idleParticles /\ noField /\ noDayNight /\ clockNotFollowed /\ noGesture /\ noAnimation /\ statusLineEmpty /\ listenerInstalled /\ fetchIdle /\ nothingToDraw /\ noBatch /\ listenersAttached /\ noGridsYet /\ noColumn /\ noAnimator /\ schedulerNotStarted

InitRel == noAnimation /\ constructedAgents /\ idleParticles /\ noField /\ noDayNight /\ clockNotFollowed /\ noGesture /\ notSpinning /\ statusLineEmpty /\ listenerInstalled /\ fetchIdle /\ nothingToDraw /\ noBatch /\ listenersAttached /\ noGridsYet /\ noColumn /\ noAnimator /\ schedulerNotStarted

InitRep == statusLineEmpty /\ constructedAgents /\ idleParticles /\ noField /\ noDayNight /\ clockNotFollowed /\ noGesture /\ notSpinning /\ noAnimation /\ listenerInstalled /\ fetchIdle /\ nothingToDraw /\ noBatch /\ listenersAttached /\ noGridsYet /\ noColumn /\ noAnimator /\ schedulerNotStarted

InitProp == listenerInstalled /\ constructedAgents /\ idleParticles /\ noField /\ noDayNight /\ clockNotFollowed /\ noGesture /\ notSpinning /\ noAnimation /\ statusLineEmpty /\ fetchIdle /\ nothingToDraw /\ noBatch /\ listenersAttached /\ noGridsYet /\ noColumn /\ noAnimator /\ schedulerNotStarted

InitFetch == serviceStarted /\ constructedAgents /\ idleParticles /\ noField /\ noDayNight /\ clockNotFollowed /\ noGesture /\ notSpinning /\ noAnimation /\ statusLineEmpty /\ listenerInstalled /\ nothingToDraw /\ noBatch /\ listenersAttached /\ noGridsYet /\ noColumn /\ noAnimator /\ schedulerNotStarted

InitDraw == frameToDraw /\ constructedAgents /\ idleParticles /\ noField /\ noDayNight /\ clockNotFollowed /\ noGesture /\ notSpinning /\ noAnimation /\ statusLineEmpty /\ listenerInstalled /\ fetchIdle /\ noBatch /\ listenersAttached /\ noGridsYet /\ noColumn /\ noAnimator /\ schedulerNotStarted

InitBatch == interpolateFieldCalled /\ constructedAgents /\ idleParticles /\ noField /\ noDayNight /\ clockNotFollowed /\ noGesture /\ notSpinning /\ noAnimation /\ statusLineEmpty /\ listenerInstalled /\ fetchIdle /\ nothingToDraw /\ listenersAttached /\ noGridsYet /\ noColumn /\ noAnimator /\ schedulerNotStarted

InitOverlay == listenersAttached /\ constructedAgents /\ idleParticles /\ noField /\ noDayNight /\ clockNotFollowed /\ noGesture /\ notSpinning /\ noAnimation /\ statusLineEmpty /\ listenerInstalled /\ fetchIdle /\ nothingToDraw /\ noBatch /\ noGridsYet /\ noColumn /\ noAnimator /\ schedulerNotStarted

InitGrid == noGridsYet /\ listenersAttached /\ constructedAgents /\ idleParticles /\ noField /\ noDayNight /\ clockNotFollowed /\ noGesture /\ notSpinning /\ noAnimation /\ statusLineEmpty /\ listenerInstalled /\ fetchIdle /\ nothingToDraw /\ noBatch /\ noColumn /\ noAnimator /\ schedulerNotStarted

InitColour == columnToDo /\ noGridsYet /\ listenersAttached /\ constructedAgents /\ idleParticles /\ noField /\ noDayNight /\ clockNotFollowed /\ noGesture /\ notSpinning /\ noAnimation /\ statusLineEmpty /\ listenerInstalled /\ fetchIdle /\ nothingToDraw /\ noBatch /\ noAnimator /\ schedulerNotStarted

InitActive == noAnimator /\ noColumn /\ noGridsYet /\ listenersAttached /\ constructedAgents /\ idleParticles /\ noField /\ noDayNight /\ clockNotFollowed /\ noGesture /\ notSpinning /\ noAnimation /\ statusLineEmpty /\ listenerInstalled /\ fetchIdle /\ nothingToDraw /\ noBatch /\ schedulerNotStarted

InitService == schedulerStarted /\ noAnimator /\ noColumn /\ noGridsYet /\ listenersAttached /\ constructedAgents /\ idleParticles /\ noField /\ noDayNight /\ clockNotFollowed /\ noGesture /\ notSpinning /\ noAnimation /\ statusLineEmpty /\ listenerInstalled /\ fetchIdle /\ nothingToDraw /\ noBatch

SpecAgents == InitAgents /\ [][NextAgents]_vars

SpecParticles == InitParticles /\ [][NextParticles]_vars

SpecField == InitField /\ [][NextField]_vars

SpecMask == InitMask /\ [][NextMask]_vars

SpecSun == InitSun /\ [][NextSun]_vars

SpecInput == InitInput /\ [][NextInput]_vars

SpecSpin == InitSpin /\ [][NextSpin]_vars

SpecRel == InitRel /\ [][NextRel]_vars

SpecRep == InitRep /\ [][NextRep]_vars

SpecProp == InitProp /\ [][NextProp]_vars

SpecFetch == InitFetch /\ [][NextFetch]_vars

SpecDraw == InitDraw /\ [][NextDraw]_vars

SpecBatch == InitBatch /\ [][NextBatch]_vars

SpecOverlay == InitOverlay /\ [][NextOverlay]_vars

SpecGrid == InitGrid /\ [][NextGrid]_vars

SpecColour == InitColour /\ [][NextColour]_vars

SpecActive == InitActive /\ [][NextActive]_vars

SpecService == InitService /\ [][NextService]_vars

\* The first invocation is made by interpolateField itself and every further
\* one by a timer, which fires.
SpecBatchLive == SpecBatch /\ WF_vars(NextBatch)

\* Every step of a chain settles: the downloads have a timeout.
SpecFetchLive == SpecFetch /\ WF_vars(NextFetch)

\* Every interpolation's batches run to the end (batchInterpolate's timers).
SpecOverlayLive ==
    /\ InitOverlay
    /\ [][NextOverlaySettling]_vars
    /\ \A id \in 1..MaxOverlaySteps : WF_vars(OverlayFieldSettles(id))

\* ------------------------------------------------------- agent claims
EventCount(ag, kind, id) ==
    Cardinality({i \in 1..Len(ag.events) : ag.events[i] = <<kind, id>>})

Terminals(ag, id) == EventCount(ag, "update", id) + EventCount(ag, "reject", id)

\* C1 as stated: for builds B1 submitted before B2 (B2 the agent's latest),
\* once both have resolved value() is B2's result.
C1_LatestResolvedIsValue ==
    \A a \in Agents : \A b1, b2 \in 1..agents[a].n :
        ( /\ b1 < b2 /\ b2 = agents[a].n
          /\ agents[a].phase[b1] = "resolved"
          /\ agents[a].phase[b2] = "resolved" )
        => agents[a].value = b2

\* C1 amended: for builds B1 submitted before B2 that have both resolved, if
\* B2 was not cancelled before it resolved then value() is the result of B2 or
\* of a later build, never B1's; so a stale build never overwrites a newer
\* published value, and value() is B2's result while B2 is the latest build.
C1_StaleNeverOverwrites ==
    \A a \in Agents : \A b1, b2 \in 1..agents[a].n :
        ( /\ b1 < b2
          /\ agents[a].phase[b1] = "resolved"
          /\ agents[a].phase[b2] = "resolved"
          /\ b2 \notin agents[a].stale )
        => /\ agents[a].value # b1
           /\ agents[a].value >= b2
           /\ (b2 = agents[a].n => agents[a].value = b2)

\* C1 witness: field build B1 resolved stale (no update was delivered for it)
\* and the later B2 resolved with a complete field, which is value().
C1_Witness ==
    \E b1, b2 \in 1..agents["field"].n :
        /\ b1 < b2
        /\ agents["field"].phase[b1] = "resolved"
        /\ agents["field"].phase[b2] = "resolved"
        /\ b1 \in agents["field"].stale
        /\ EventCount(agents["field"], "update", b1) = 0
        /\ fieldX[b2] = NumColumns
        /\ agents["field"].value = b2

\* C2: a field build that was in flight when cancel() was requested is never
\* delivered in an update event and never becomes value(); every field that
\* was published is complete (all columns interpolated), so the partial field
\* a cancelled interpolateField resolves with is never published.
C2_CancelledNeverPublished ==
    /\ \A id \in cancelAsked :
          /\ EventCount(agents["field"], "update", id) = 0
          /\ agents["field"].value # id
    /\ \A id \in 1..agents["field"].n :
          EventCount(agents["field"], "update", id) > 0
              => fieldX[id] \in {-1, NumColumns}

\* C2 witness: a cancelled interpolation has run to completion and resolved
\* with a partially filled field.
C2_Witness ==
    \E id \in cancelAsked :
        /\ agents["field"].phase[id] = "resolved"
        /\ 0 < fieldX[id] /\ fieldX[id] < NumColumns

\* Whether the builder of build id of agent a succeeds is decided by the
\* builder: buildGlobe succeeds exactly for registered names; the other
\* builders' outcome is what their promise settled as.
Succeeded(a, id) ==
    IF a = "globe" THEN projName[id] \in Registry
    ELSE agents[a].phase[id] = "resolved"

\* C3: every build has exactly one submit event, emitted before any terminal
\* event of that build; a build still running has no terminal event; a build
\* cancelled before it completed has none either; otherwise it has exactly one:
\* an update if the builder succeeded, a reject if it rejected.
C3_EventLifecycle ==
    \A a \in Agents : \A id \in 1..agents[a].n :
        LET ag == agents[a] IN
        /\ EventCount(ag, "submit", id) = 1
        /\ \A i \in 1..Len(ag.events) :
              (ag.events[i][2] = id /\ ag.events[i][1] # "submit")
                  => \E j \in 1..(i - 1) : ag.events[j] = <<"submit", id>>
        /\ Terminals(ag, id) <= 1
        /\ (ag.phase[id] = "running" \/ id \in ag.stale) => Terminals(ag, id) = 0
        /\ (ag.phase[id] # "running" /\ id \notin ag.stale) =>
              IF Succeeded(a, id)
              THEN EventCount(ag, "update", id) = 1 /\ EventCount(ag, "reject", id) = 0
              ELSE EventCount(ag, "reject", id) = 1 /\ EventCount(ag, "update", id) = 0

\* C3 witness: on one agent a build ended with an update, one with a reject
\* and one was cancelled before completing and ended in silence.
C3_Witness ==
    \E id1, id2, id3 \in 1..agents["globe"].n :
        LET ag == agents["globe"] IN
        /\ EventCount(ag, "update", id1) = 1
        /\ EventCount(ag, "reject", id2) = 1
        /\ id3 \in ag.stale /\ ag.phase[id3] # "running"

\* The build id of agent a fails in this step.
FailsNow(a, id) ==
    /\ id \in Running(agents[a])
    /\ agents'[a].phase[id] # "running"
    /\ IF a = "globe" THEN projName[id] \notin Registry
       ELSE agents'[a].phase[id] = "rejected"

\* What every failure leaves alone: value(), no update event, and no other
\* agent gets a build submitted.
FailureIsolated(a) ==
    /\ agents'[a].value = agents[a].value
    /\ \A i \in 1..Len(agents'[a].events) :
          i > Len(agents[a].events) => agents'[a].events[i][1] # "update"
    /\ \A o \in Agents \ {a} : agents'[o].n = agents[o].n

\* C4 as stated: whenever a build fails, the failure is reported to the status
\* reporter, value() stays, no update is emitted, no downstream is resubmitted.
C4_EveryFailureReported ==
    [][\A a \in Agents : \A id \in 1..agents[a].n :
          FailsNow(a, id) => (status'.bad /\ FailureIsolated(a))]_vars

\* C4 amended: whenever a build fails, value() stays its last published value,
\* no update is emitted and no other agent is resubmitted; the failure is
\* reported to the status reporter when the build had not been cancelled
\* (superseded) before it failed.
C4_FailureIsolated ==
    [][\A a \in Agents : \A id \in 1..agents[a].n :
          FailsNow(a, id) =>
              /\ FailureIsolated(a)
              /\ (id \notin agents[a].stale => status'.bad)
              /\ (id \notin agents[a].stale /\ a = "globe"
                     => status'.text = "Unknown projection")]_vars

\* C4 witness: buildGlobe rejected an unknown projection name, the error is on
\* the status line and the previous Globe is still value().
C4_Witness ==
    \E id \in 1..agents["globe"].n :
        /\ projName[id] \notin Registry
        /\ EventCount(agents["globe"], "reject", id) = 1
        /\ agents["globe"].value # 0
        /\ agents["globe"].value < id
        /\ status = [bad |-> TRUE, text |-> "Unknown projection"]
        /\ agents["renderer"].n = 1

\* ---------------------------------------------------- particle claims
\* C5: after a trailClear and K trailPush calls the trail, walked as
\* drawParticleTrail walks it (slots (head - size + j) mod TRAIL_LEN), is the
\* last TRAIL_LEN pushed samples oldest first when K > TRAIL_LEN, and all K
\* samples in push order when K <= TRAIL_LEN.
C5_TrailIsFifo ==
    /\ trail.size = (IF pushes > TRAIL_LEN THEN TRAIL_LEN ELSE pushes)
    /\ trailSamples(trail) = fifo

\* More than TRAIL_LEN pushes since resetTrails cleared the trail: the head
\* has wrapped.
C5_Witness ==
    /\ resets > 0
    /\ pushes > TRAIL_LEN
    /\ trail.head = 1

\* C6 as stated: in every tick in which the particle is advanced, its
\* longitude changes by at most MAX_STEP_DEG_LON and its latitude by at most
\* MAX_STEP_DEG_LAT, and the step locating the midpoint obeys the same bounds.
C6_TickChangeBounded ==
    [][(ticks' = ticks + 1 /\ last'.outcome = "advanced") =>
          /\ Abs(lon' - lon) <= MAX_STEP_DEG_LON
          /\ Abs(lat' - lat) <= MAX_STEP_DEG_LAT
          /\ Abs(last'.k1[1]) <= MAX_STEP_DEG_LON
          /\ Abs(last'.k1[2]) <= MAX_STEP_DEG_LAT]_vars

\* C6, amended: in every tick in which the particle is advanced, its position
\* differs from the position the integration started from (the spawn point,
\* when the tick first respawned it for its age) by at most MAX_STEP_DEG_LON
\* in longitude and MAX_STEP_DEG_LAT in latitude, and so does the step k1
\* locating the midpoint.
C6_StepBounded ==
    last.outcome = "advanced" =>
        /\ Abs(lon - last.from[1]) <= MAX_STEP_DEG_LON
        /\ Abs(lat - last.from[2]) <= MAX_STEP_DEG_LAT
        /\ Abs(last.k1[1]) <= MAX_STEP_DEG_LON
        /\ Abs(last.k1[2]) <= MAX_STEP_DEG_LAT

\* A gale, respawned for its age and advanced in the same tick, both steps at
\* their limits.
C6_Witness ==
    /\ last.outcome = "advanced"
    /\ last.aged
    /\ Abs(lon - last.from[1]) = MAX_STEP_DEG_LON
    /\ Abs(last.k1[2]) = MAX_STEP_DEG_LAT

\* C7: after initialization and after any sequence of ticks, respawns and
\* resetTrails calls, the particle's latitude lies within [-85, 85] degrees.
C7_LatitudeClamped == -85 * Deg <= lat /\ lat <= 85 * Deg

\* Advanced by a northward gale while at the limit, after a resetTrails.
C7_Witness ==
    /\ grid = "gale"
    /\ last.outcome = "advanced"
    /\ last.from[2] = 85 * Deg
    /\ lat = 85 * Deg
    /\ resets > 0

\* C8 as stated: in a tick in which the particle is advanced, exactly one
\* sample, its new position, is appended to its trail and its age increases
\* by 1; and a freshly spawned particle in the constant wind [5,0,5] with an
\* unclamped step has, after the tick, its longitude increased by that step,
\* its latitude unchanged and trail size 2.
C8_OneSamplePerTick ==
    [][(ticks' = ticks + 1 /\ last'.outcome = "advanced") =>
          /\ trailSamples(trail') = fifoPush(trailSamples(trail), <<lon', lat'>>)
          /\ age' = age + 1
          /\ (grid = "uniform" /\ trail.size = 1 /\ velocityScale = 1) =>
                /\ lon' = lon + Quot(5 * velocityScale * 100, cosFloor(CosPct(lat)))
                /\ lat' = lat
                /\ trail'.size = 2]_vars

\* The particle as the integration of the coming tick finds it: respawned at
\* q when its age exceeds MAX_AGE.
atIntegration(q) == IF age > MAX_AGE THEN randomizeParticle(Particle, q) ELSE Particle

\* C8, amended: in a tick in which the particle is advanced, exactly one
\* sample, its new position, is appended to the trail the integration found
\* (the one-sample trail of the respawn, when the tick first respawned the
\* particle for its age) and the age the integration found increases by 1;
\* the freshly spawned particle in the constant wind [5,0,5] ends the tick
\* with its longitude increased by the unclamped step, its latitude unchanged
\* and trail size 2.
C8_OneSamplePerIntegration ==
    [][(ticks' = ticks + 1 /\ last'.outcome = "advanced") =>
          LET pre == atIntegration(last'.from) IN
          /\ trailSamples(trail') = fifoPush(trailSamples(pre.trail), <<lon', lat'>>)
          /\ age' = pre.age + 1
          /\ (grid = "uniform" /\ pre.trail.size = 1 /\ velocityScale = 1) =>
                /\ lon' = pre.lon + Quot(5 * velocityScale * 100, cosFloor(CosPct(pre.lat)))
                /\ lat' = pre.lat
                /\ trail'.size = 2]_vars

\* Constant wind: respawned for its age and advanced by the unclamped step in
\* the same tick, trail size 2.
C8_Witness ==
    /\ grid = "uniform"
    /\ last.outcome = "advanced"
    /\ last.aged
    /\ age = 1
    /\ trail.size = 2
    /\ lon = last.from[1] + Quot(5 * velocityScale * 100, cosFloor(CosPct(lat)))
    /\ lat = last.from[2]

\* ------------------------------------------------------- field claims
\* the field has no entry at the pixel (x, y): no column x, or no index y in it
noColumnEntry(x, y) == ~columns[x].defined \/ columns[x].cells[y] = NoEntry

\* C9: in a completed field, at every sampled mask-visible pixel whose
\* inverted point has no value in the primary grid (interpolate returns
\* null), isDefined is false while isInsideBoundary is true; and
\* isInsideBoundary is false only where no column entry exists at all.
C9_HoleInsideBoundary ==
    /\ fieldPhase = "complete" =>
          \A p \in Sampled :
              scene[p] = "noData" =>
                  /\ ~isDefined(columns, 2 * p[1], 2 * p[2])
                  /\ isInsideBoundary(columns, 2 * p[1], 2 * p[2])
    /\ \A x \in Xs, y \in Ys :
          ~isInsideBoundary(columns, 2 * x, 2 * y) => noColumnEntry(x, y)

\* A completed field with a hole, a pixel outside the mask and wind.
C9_Witness ==
    /\ fieldPhase = "complete"
    /\ \E p \in Sampled :
          /\ scene[p] = "noData"
          /\ field(columns, 2 * p[1], 2 * p[2]) = HOLE_VECTOR
    /\ \E p \in Sampled :
          /\ scene[p] = "masked"
          /\ ~isInsideBoundary(columns, 2 * p[1], 2 * p[2])
    /\ \E p \in Sampled : isDefined(columns, 2 * p[1], 2 * p[2])

\* -------------------------------------------------------- mask claims
\* C10: getMask called twice for the same Globe with no projection mutation
\* (and nothing else touching the cache) in between returns the identical
\* mask object; and the mask a day/night update draws with was made after the
\* latest mutation of the Globe's projection (drag or zoom, auto-rotation
\* step, programmatic reorientation).
C10_MaskCacheCoherent ==
    /\ (/\ lastUse.mask # 0
        /\ lastUse.prevMask # 0
        /\ lastUse.prevGlobe = lastUse.globe
        /\ lastUse.quiet) => lastUse.mask = lastUse.prevMask
    /\ lastUse.mask # 0 => lastUse.builtRev = lastUse.usedRev

\* -------------------------------------------------- day/night claims
Equinox(date) == <<date.month, date.day>> \in {<<3, 21>>, <<9, 23>>}

\* C11: at lon = 0, lat = 0 on an equinox date the solar elevation computed
\* by calculateDayNightStatus is positive (day) when the UTC time is 12:00
\* and negative (night) when it is 00:00.
C11_EquinoxNoonAndMidnight ==
    (dnStatus.called /\ dnStatus.point = <<0, 0>> /\ Equinox(dnStatus.at)) =>
        /\ dnStatus.at.hour = 12 => (dnStatus.isDay /\ dnStatus.sinElevation > 0)
        /\ dnStatus.at.hour = 0 => (~dnStatus.isDay /\ dnStatus.sinElevation < 0)

\* (0, 0) was classified at 00:00 UTC of an equinox date: night.
C11_Witness ==
    /\ dnStatus.called
    /\ dnStatus.point = <<0, 0>>
    /\ Equinox(dnStatus.at)
    /\ dnStatus.at.hour = 0
    /\ ~dnStatus.isDay

Moving(o) == o # NoOp /\ o.type \in {"drag", "zoom"}

\* C13: whatever the order and multiplicity of zoomstart, zoom and zoomend
\* events delivered to a controller that has its globe, no handler fails, and
\* after each zoomend no operation is open.
C13_NoHandlerFails ==
    inputGlobe =>
        /\ ~thrown
        /\ lastInput.name = "zoomend" => op = NoOp

\* What the handlers of a promoted gesture emit, up to and including its
\* zoomend: moveStart once, with the first move, then one move per update.
C14_StartAndMoves ==
    /\ (lastInput'.name = "zoom" /\ ~thrown') =>
          /\ (~Moving(op) /\ Moving(op')) =>
                 (out' = <<Event("moveStart"), Event("move")>> /\ opLog'.starts = 1)
          /\ Moving(op) => (out' = <<Event("move")>> /\ Moving(op'))
          /\ ~Moving(op') => out' = <<>>
    /\ (lastInput'.name = "zoomend" /\ Moving(op)) =>
          /\ opLog.starts = 1
          /\ opLog.moves = opLog.since
          /\ out' = <<>>
          /\ endPending'
    /\ lastInput'.name \in {"zoomstart", "zoomend"} => count(out', "moveEnd") = 0

\* C14 as stated: a promoted gesture emits moveStart once at promotion and
\* one move per update, and when MOVE_END_WAIT has passed since the latest
\* gesture end exactly one moveEnd is emitted.
C14_OneMoveEndAfterWait ==
    [][/\ C14_StartAndMoves
       /\ lastInput'.name = "signalEnd" => out' = <<Event("moveEnd")>>]_vars

\* C14, amended: a promoted gesture emits moveStart once at promotion and one
\* move per update; when MOVE_END_WAIT has passed since the latest end of a
\* promoted gesture, exactly one moveEnd is emitted if no drag or zoom
\* operation is open, and nothing is emitted if one is open; the wait is
\* then over until another promoted gesture ends.
C14_MoveEndUnlessMoving ==
    [][/\ C14_StartAndMoves
       /\ lastInput'.name = "signalEnd" =>
             /\ endPending /\ ~endPending'
             /\ out' = IF Moving(op) THEN <<>> ELSE <<Event("moveEnd")>>]_vars

\* A drag of two updates has ended and its moveEnd was emitted after the wait.
C14_Witness ==
    /\ lastInput.name = "signalEnd"
    /\ out = <<Event("moveEnd")>>
    /\ op = NoOp
    /\ opLog.starts = 1
    /\ opLog.moves = 2

\* C15: an operation starts as a click; an update leaves it a drag only if
\* it was a drag already or the pointer is at least MIN_MOVE from the start
\* point with the scale unchanged; an update whose scale differs from the
\* start scale makes it a zoom; a zoom stays a zoom until the operation ends.
C15_Promotion ==
    [][/\ (lastInput'.name = "zoomstart" /\ op = NoOp /\ op' # NoOp) => op'.type = "click"
       /\ (lastInput'.name = "zoom" /\ ~thrown') =>
             LET m == lastInput'.mouse
                 s == lastInput'.scale
                 far == distanceMoved2(m, op'.startMouse) >= MIN_MOVE * MIN_MOVE
             IN /\ op # NoOp =>
                      (op'.startMouse = op.startMouse /\ op'.startScale = op.startScale)
                /\ s # op'.startScale => op'.type = "zoom"
                /\ op'.type = "drag" =>
                      ((op # NoOp /\ op.type = "drag") \/ (far /\ s = op'.startScale))
                /\ op'.type \in {"click", "spurious"} => (~far /\ s = op'.startScale)
                /\ (op # NoOp /\ op.type = "zoom") => op'.type = "zoom"
       /\ (lastInput'.name \notin {"zoom", "zoomend"} /\ op # NoOp) => op' = op]_vars

\* A zoom operation received a later update at its start scale, far from
\* its start point, and is still a zoom.
C15_Witness ==
    /\ lastInput.name = "zoom"
    /\ op # NoOp
    /\ op.type = "zoom"
    /\ lastInput.scale = op.startScale
    /\ distanceMoved2(lastInput.mouse, op.startMouse) >= MIN_MOVE * MIN_MOVE
    /\ opLog.since >= 2

\* C16: the zoomend of a click operation emits exactly one click event with
\* the operation's start point and the inverse projection of that point, the
\* operation having emitted no moveStart and no move and arming no moveEnd;
\* the zoomend of a spurious operation emits nothing.
C16_ClickAndSpurious ==
    [][(lastInput'.name = "zoomend" /\ op # NoOp /\ op.type \in {"click", "spurious"}) =>
          /\ opLog.starts = 0
          /\ opLog.moves = 0
          /\ endPending' = endPending
          /\ op.type = "spurious" => out' = <<>>
          /\ op.type = "click" =>
                /\ Len(out') = 1
                /\ out'[1].name = "click"
                /\ out'[1].point = op.startMouse
                /\ out'[1].coord \in {invert(op.startMouse, TRUE), invert(op.startMouse, FALSE)}]_vars

\* A click that ended away from where it started was reported at its start
\* point, with a coordinate.
C16_Witness ==
    /\ lastInput.name = "zoomend"
    /\ ~thrown
    /\ Len(out) = 1
    /\ out[1].name = "click"
    /\ out[1].point # lastInput.mouse
    /\ out[1].coord = invert(out[1].point, TRUE)

\* ---------------------------------------------------- auto-rotation claims
\* C17: in one animation frame evolve and draw are given the same Globe, and
\* the projection has the same rotation for both.
C17_SameGlobeInFrame == frameSaw.evolve = frameSaw.draw

\* A frame ran with a turned globe that is not the one the animation was
\* submitted with.
C17_Witness ==
    /\ frameSaw # NoFrameSeen
    /\ frameSaw.draw[1] # animGlobe
    /\ frameSaw.draw[2] # 0

\* C18: between a moveStart of the input controller and the following
\* moveEnd, no auto-rotation step rotates the projection.
C18_NoRotationDuringGesture == ~(gesture /\ rotated)

\* C19: once the host has set the auto-rotation speed to 0, no auto-rotation
\* step rotates the projection until the host sets a positive speed.
C19_OffStaysOff == hostOff => ~rotated

\* ---------------------------------------------------- field release claims
\* C20: the field published as fieldAgent.value() is never a released one,
\* and no lookup on the current field is answered by a released field.
C20_PublishedNeverReleased ==
    /\ published \notin releasedFields
    /\ ~lookup.released

\* ------------------------------------------------------ status line claims
\* C21: while the status line shows an error, a report.status call leaves it
\* as it is; the error goes away only by report.reset, and only another
\* report.error changes its text.
C21_ErrorSticky ==
    [][line.bad =>
          /\ lastCall'.fn = "status" => line' = line
          /\ lastCall'.fn = "error" => (line'.bad /\ line'.text = lastCall'.arg)
          /\ ~line'.bad => (lastCall'.fn = "reset" /\ line'.text = "")]_vars

\* An error is on the status line and the latest call was a report.status
\* with another text.
C21_Witness ==
    /\ line.bad
    /\ line.text = "No Data"
    /\ lastCall = [fn |-> "status", arg |-> "Downloading..."]

\* ------------------------------------------------- property listener claims
\* C22: once the properties kept from before readiness have been applied,
\* every property received before readiness, and not received again since,
\* has its latest value in the configuration.
C22_NoPropertyLost ==
    applyTimer = "fired" =>
        \A k \in Keys :
            (receivedBefore[k] # Absent /\ k \notin laterKeys) =>
                applied(configuration, k, receivedBefore[k])

\* ---------------------------------------------------- weather service claims
\* The candidate pairs in order: today before yesterday, and for each date the
\* runs as listed.
Candidates(runs) ==
    [i \in 1..(Len(datesToTry) * Len(runs)) |->
        <<datesToTry[((i - 1) \div Len(runs)) + 1], runs[((i - 1) % Len(runs)) + 1]>>]

MostRecentFirst(runs) == \A i, j \in 1..Len(runs) : i < j => runs[i] > runs[j]

C23_InOrderOnce ==
    /\ tried = SubSeq(Candidates(runsToTry), 1, Len(tried))
    /\ MostRecentFirst(runsToTry)
    /\ Len(callbacks) <= 1
    /\ Len(callbacks) = 1 <=> fetching = "done"
    /\ \A i \in 1..Len(outcomes) : outcomes[i] = "ok" => i = Len(tried)
    /\ fetching = "trying" => Len(outcomes) = Len(tried) - 1
    /\ callbacks = <<"ok">> =>
          /\ Len(outcomes) = Len(tried)
          /\ outcomes[Len(outcomes)] = "ok"
    /\ callbacks = <<"error">> =>
          /\ tried = Candidates(runsToTry)
          /\ Len(outcomes) = Len(tried)
          /\ \A i \in 1..Len(outcomes) : outcomes[i] = "failed"

C25_RespawnResetsAll ==
    /\ \A q \in SpawnChoices(grid) :
          LET r == randomizeParticle(Particle, q) IN
          age > MAX_AGE =>
              (r.age = 0 /\ r.miss = 0 /\ trailSamples(r.trail) = <<q>> /\ <<r.lon, r.lat>> = q)
    /\ last.outcome = "respawn" =>
          (age = 0 /\ miss = 0 /\ trailSamples(trail) = <<<<lon, lat>>>>)

\* C25, amended: whenever the particle is respawned, immediately afterwards
\* its age is 0 and its trail holds exactly one sample, the spawn position;
\* its miss counter is what it was: above the threshold after a respawn for
\* misses.
C25_RespawnResetsAgeAndTrail ==
    /\ \A q \in SpawnChoices(grid) :
          LET r == randomizeParticle(Particle, q) IN
          age > MAX_AGE =>
              (r.age = 0 /\ r.miss = miss /\ trailSamples(r.trail) = <<q>> /\ <<r.lon, r.lat>> = q)
    /\ last.outcome = "respawn" =>
          (age = 0 /\ miss > MISS_LIMIT /\ trailSamples(trail) = <<<<lon, lat>>>>)

\* Respawned for its misses, the counter still at 9.
C25_Witness == last.outcome = "respawn" /\ miss = MISS_LIMIT + 1 /\ trail.size = 1

\* About to be respawned for its age, with a full trail.
C25_WitnessAged == age > MAX_AGE /\ trail.size = TRAIL_LEN

\* C26 as stated: in one tick the particle is either respawned or integrated,
\* never both: respawned for its age it is not advected in that tick, and at
\* the end of the tick it is at its spawn position with trail size 1.
C26_RespawnOrIntegrate ==
    last.aged =>
        /\ last.outcome # "advanced"
        /\ <<lon, lat>> = last.from
        /\ trail.size = 1

\* C26, amended: the particle respawned for its age is integrated in the same
\* tick from its spawn position: with wind defined there and at the midpoint
\* it ends the tick advanced, age 1, its trail the spawn position and the new
\* position.  The particle respawned for its misses is not integrated: it
\* ends the tick at its spawn position, age 0 and trail size 1.
C26_AgeRespawnThenIntegrated ==
    /\ (last.aged /\ last.outcome = "advanced") =>
          (age = 1 /\ trailSamples(trail) = <<last.from, <<lon, lat>>>>)
    /\ last.outcome = "respawn" =>
          (age = 0 /\ trailSamples(trail) = <<<<lon, lat>>>>)

\* Respawned for its age and moved on from the spawn position in the same tick.
C26_Witness ==
    /\ last.aged
    /\ last.outcome = "advanced"
    /\ trail.size = 2
    /\ <<lon, lat>> # last.from

\* C27: in a tick that finds the wind undefined at the particle's position or
\* at the midpoint (the tick not having respawned the particle for its age),
\* position, age and trail are unchanged and the miss counter is incremented,
\* unless the counter then exceeds the threshold 8, when the particle is
\* respawned.
C27_MissCountedThenRespawn ==
    [][(ticks' = ticks + 1 /\ ~last'.aged /\ last'.outcome \in {"miss", "respawn"}) =>
          /\ last'.outcome = "respawn" <=> miss + 1 > MISS_LIMIT
          /\ last'.outcome = "miss" =>
                /\ <<lon', lat', age', trail'>> = <<lon, lat, age, trail>>
                /\ miss' = miss + 1]_vars

\* ----------------------------------------------------- trail drawing claims
\* The sample projects to a finite screen point inside the viewport bounds
\* and, for a clip angle of at most 90 degrees, lies on the front hemisphere.
drawable(s) ==
    /\ s.kind = "point"
    /\ currentBounds.x <= s.x /\ s.x <= currentBounds.xMax
    /\ currentBounds.y <= s.y /\ s.y <= currentBounds.yMax
    /\ (clipAngle # 0 /\ clipAngle <= 90) => s.front

\* The two screen points are at most 0.35 * max(width, height) apart: 20 times
\* their distance is at most 7 times the larger dimension.
near(a, b) ==
    LET larger == IF currentBounds.width > currentBounds.height
                  THEN currentBounds.width ELSE currentBounds.height
    IN  400 * ((a.x - b.x) * (a.x - b.x) + (a.y - b.y) * (a.y - b.y)) <= 49 * larger * larger

\* C28: a segment (a lineTo, from the point of the call before it) joins two
\* consecutive samples of the trail, both projecting to finite screen points
\* inside the viewport bounds and, for a clip angle of at most 90 degrees, on
\* the front hemisphere, and at most 0.35 * max(width, height) apart on the
\* screen; a failing sample gets no call, and the sample after it starts a
\* new sub-path.
C28_SegmentsOnlyBetweenDrawable ==
    trailDrawn =>
        /\ \A k \in 1..Len(path) :
              /\ drawable(drawTrail[path[k].j])
              /\ <<path[k].x, path[k].y>> = <<drawTrail[path[k].j].x, drawTrail[path[k].j].y>>
              /\ path[k].call = "lineTo" =>
                    /\ k > 1
                    /\ path[k - 1].j = path[k].j - 1
                    /\ near(path[k - 1], path[k])
              /\ (k > 1 /\ path[k - 1].j < path[k].j - 1) => path[k].call = "moveTo"
        /\ \A j \in 1..Len(drawTrail) :
              ~drawable(drawTrail[j]) => \A k \in 1..Len(path) : path[k].j # j

\* A segment drawn up to the largest distance allowed, the sub-path ended by a
\* sample on the far side.
C28_Witness ==
    /\ trailDrawn
    /\ clipAngle = 90
    /\ Len(drawTrail) = 3
    /\ ~drawTrail[3].front
    /\ Len(path) = 2
    /\ path[2].call = "lineTo"
    /\ <<path[1].x, path[2].x>> = <<1, 8>>

\* ------------------------------------------------------------ batch claims
\* What one invocation of batchInterpolate does.
C29_EachBatch ==
    [][batches' = batches + 1 =>
          /\ lastBatch'.requested = cancelRequested
          /\ cancelRequested => (bx' = bx /\ promise' = "resolved")
          /\ sleepTimer' # 0 <=> (promise' = "pending" /\ lastBatch'.outcome = "yielded")
          /\ lastBatch'.outcome = "yielded" =>
                /\ lastBatch'.elapsed > MAX_TASK_TIME
                /\ sleepTimer' = MIN_SLEEP_TIME
                /\ bx' > bx
                /\ shownProgress' = <<bx', bxMax>>
          /\ bx' >= bx
          /\ (promise' = "resolved" /\ ~cancelRequested) => bx' >= bxMax]_vars

\* C29: a batch yields only once more than MAX_TASK_TIME has passed since its
\* start, and is resumed by a timer of MIN_SLEEP_TIME; every invocation looks
\* at the cancel token first and, finding it set, interpolates nothing and
\* resolves; the column index increases in every batch that yields; and the
\* promise settles after finitely many batches, whatever the bounds and
\* whenever the cancellation comes.
C29_BatchesSettle ==
    /\ C29_EachBatch
    /\ [](2 * batches <= bxMax + 3)
    /\ <>(promise # "pending")

\* Cancelled while asleep after two batches, one of one column and one of
\* two, and resolved by the third with the columns from 6 on missing.
C29_Witness ==
    /\ batches = 3
    /\ lastBatch.requested
    /\ promise = "resolved"
    /\ bx = 6
    /\ bxMax = 8

\* ---------------------------------------------------------- overlay claims
\* C30 as stated: a start, redraw or render event cancels or replaces an
\* interpolation in flight only while the user interacts, from the user's
\* moveStart to its moveEnd.
C30_OnlyDuringInteraction ==
    \A k \in 1..Len(emitted) : emitted[k].stopped # {} => emitted[k].interacting

\* C30, amended: an event cancels or replaces an interpolation in flight only
\* while the user interacts, or when it is the render of stopAutoRotation; a
\* redraw outside a gesture and every event of the auto-rotation loop outside
\* a gesture leave the interpolation in flight alone.
C30_InteractionOrStop ==
    \A k \in 1..Len(emitted) :
        /\ emitted[k].stopped # {} =>
              \/ emitted[k].interacting
              \/ (emitted[k].event = "render" /\ emitted[k].by = "stopAutoRotation")
        /\ (~emitted[k].interacting /\ emitted[k].by = "updateAutoRotation") =>
              emitted[k].stopped = {}

\* The auto-rotation loop runs, its render due by the clock, while an
\* interpolation is in flight and the user is not interacting.
C30_Witness ==
    /\ Len(emitted) = 1
    /\ emitted[1].by = "updateAutoRotation"
    /\ ~emitted[1].interacting
    /\ Live(overlayAgents) # {}
    /\ interpolating

\* ------------------------------------------- overlay completion claims
FieldUpdated(id) ==
    \E i \in 1..Len(overlayAgents["field"].events) :
        overlayAgents["field"].events[i] = <<"update", id>>

\* The events the auto-rotation loop emitted in the latest handler while the
\* user was not interacting.
LoopEvents == {k \in 1..Len(emitted) :
                  emitted[k].by = "updateAutoRotation" /\ ~emitted[k].interacting}

RebuildCalledFor(changed, overlayType, g) ==
    \/ \E a \in {"date", "hour", "param", "surface", "level"} : a \in changed
    \/ /\ "overlayType" \in changed
       /\ overlayType # "off"
       /\ \/ g.overlay = "none"
          \/ (g.overlay # overlayType /\ ~(overlayType = "default" /\ g.same))

\* A change only to orientation, projection, showGridPoints or spinSpeed, or
\* of overlayType to off.
ViewOnly(changed, overlayType) ==
    /\ changed \subseteq {"orientation", "projection", "showGridPoints", "spinSpeed",
                          "overlayType"}
    /\ "overlayType" \in changed => overlayType = "off"

\* C32: a configuration change submits a grid rebuild exactly when the rule
\* calls for one; otherwise, and for every view-only change, the published
\* grids and the build in flight are as they were.
C32_RebuildIffLayerChanged ==
    [][lastGridOp'.op = "change" =>
         LET changed == lastGridOp'.changed
             overlayType == overlayTypeOf(cfgAttributes')
             needed == RebuildCalledFor(changed, overlayType, grids)
         IN  /\ needed => (gridAgent' = submit(gridAgent) /\ grids' = grids)
             /\ ~needed => (gridAgent' = gridAgent /\ grids' = grids)
             /\ ViewOnly(changed, overlayType) => (gridAgent' = gridAgent /\ grids' = grids)]_vars

\* The overlay was switched to default while the primary grid is also the
\* overlay grid, of type wind, and a build was in flight: nothing was
\* submitted.
C32_Witness ==
    /\ lastGridOp = [op |-> "change", changed |-> {"overlayType"}, done |-> TRUE]
    /\ cfgAttributes.overlayType = "default"
    /\ grids = [overlay |-> "wind", same |-> TRUE]
    /\ gridAgent.n = 2
    /\ Running(gridAgent) = {2}

\* C34 as stated: at most one grid download is in progress.
C34_OneDownload == downloadsInProgress <= 1

\* ---------------------------------------------------- overlay colour claims
\* The pixels of the column done so far that are visible and whose inverted
\* longitude is finite.
FinitePixels == {k \in 1..Len(coloured) : columnPixels[k].kind = "finite"}

\* C33: for every sampled visible pixel with a finite inverted longitude the
\* colour is that of the overlay grid's own scalar when the overlay grid is
\* another object than the primary grid, also where a wind sample exists, and
\* that of the wind's magnitude only when they are the same object; where the
\* driving scalar is absent the pixel is transparent.
C33_OverlayScalarDrivesColour ==
    \A k \in FinitePixels :
        LET p == columnPixels[k]
            c == coloured[k].color
        IN  /\ coloured[k].set
            /\ hasDistinctOverlay =>
                  IF p.overlay = Null THEN c.alpha = TRANSPARENT_BLACK
                  ELSE c = [of |-> p.overlay, alpha |-> OVERLAY_ALPHA]
            /\ ~hasDistinctOverlay =>
                  IF p.wind = NoWind \/ p.wind[3] = Null THEN c.alpha = TRANSPARENT_BLACK
                  ELSE c = [of |-> p.wind[3], alpha |-> OVERLAY_ALPHA]

\* A pixel where both grids have a value, the overlay grid being another
\* object: the colour is the overlay scalar's.
C33_Witness ==
    /\ hasDistinctOverlay
    /\ \E k \in FinitePixels :
          /\ columnPixels[k].wind = <<1, 1, 7>>
          /\ columnPixels[k].overlay = 280
          /\ coloured[k].color = [of |-> 280, alpha |-> OVERLAY_ALPHA]
          /\ coloured[k].vector.obj = "wind"

\* ------------------------------------------------ auto-rotation loop claims
\* The animate callbacks the browser holds: the one autoRotateAnimationFrame
\* names, and those of resumeAutoRotation.
ScheduledLoops == (IF autoRotateAnimationFrame = "pending" THEN 1 ELSE 0) + resumeLoops

\* C35 as stated: there are never two requestAnimationFrame loops that both
\* call updateAutoRotation; while the rotation runs (a speed is set and it is
\* not paused, so that every scheduled animate calls updateAutoRotation and
\* schedules itself again) at most one animate callback is scheduled.
C35_OneLoop == (autoRotateSpeed > 0 /\ ~autoRotatePaused) => ScheduledLoops <= 1

\* ---------------------------------------------------- animator flag claims
\* The frame loops that have not been cancelled.
LiveLoops == {l \in frameLoops : ~l.cancelled}

\* C36 as stated, the half its example is about: window._windAnimatorActive
\* is never false while the most recently started animator runs, that is
\* while a frame loop that has not been cancelled is scheduled.
C36_ActiveWhileRunning == LiveLoops # {} => windAnimatorActive

\* ------------------------------------------------- particle progress claims
\* C37 as stated: every particle is eventually advanced or respawned; there
\* is no infinite run of ticks in which it is skipped for missing wind data
\* without being respawned. So no state is reached that a tick skips and
\* leaves exactly as it is, whatever the random picks: from such a state every
\* later tick does the same.
C37_NeverStuck ==
    \A q1, q2 \in RandomPoints \cup {<<0, 0>>} :
        LET r == evolveParticle(Particle, grid, velocityScale, q1, q2)
        IN  ~(r.outcome = "miss" /\ ~r.aged /\ r.pt = Particle)

C39_OneRunOneRetry ==
    /\ fetchRuns <= 1
    /\ Cardinality(retryTimers) <= 1
    /\ lastTrigger.during => lastTrigger.skipped

\* The first run failed and set the retry timer, the interval's tick started
\* a run, and the retry timer fired during it: the Retry was skipped.
C39_Witness ==
    /\ lastTrigger = [label |-> "Retry", during |-> TRUE, skipped |-> TRUE]
    /\ fetchRuns = 1
    /\ timersSet = 1
    /\ retryTimers = {}

\* C40 as stated: an attempt that fails at some step, and a fetch that fails
\* overall, leave the published overlay files as they were, so once the
\* fetch has called back all the files come from a single (date, run).
C40_PublishedFromOneRun ==
    fetching = "done" => \A f, g \in OverlayFiles : overlayFiles[f] = overlayFiles[g]

====
